---------------------------- MODULE Spec2Model ----------------------------
(***************************************************************************)
(* CalpiCAD: the guillotine packer (BinaryTreePacker) and the anytime      *)
(* optimizer (OptimizerEngine) of src/algo.js.                             *)
(*                                                                         *)
(* Lengths are millimetres and times are milliseconds, as in the source.   *)
(* JavaScript arrays are sequences; array indices are 1-based here.        *)
(* A piece carries `uid`, the identity of the JavaScript object: two       *)
(* pieces with equal fields, id included, are still two physical units.    *)
(***************************************************************************)
EXTENDS Integers, Sequences, FiniteSets, TLC

(***************************************************************************)
(* 1. CONFIGURATION (CONFIG, src/algo.js:13-34)                            *)
(***************************************************************************)
plaqueWidth == 2800
plaqueHeight == 2070
minOffcutArea == 50000
maxTimeMs == 60000
stabilityThresholdMs == 30000
yieldInterval == 15
\* Number.MAX_VALUE, the initial bestScore: the largest finite number, which
\* no integer of the model reaches.  A bestScore is a record: isMax for
\* Number.MAX_VALUE, or the score in value.
MAX_VALUE == [isMax |-> TRUE, value |-> 0]

CONFIG_plaque == [width |-> plaqueWidth, height |-> plaqueHeight]

(***************************************************************************)
(* Arithmetic helpers (Math.abs, Math.min, Math.max)                       *)
(***************************************************************************)
Abs(a) == IF a < 0 THEN -a ELSE a
Min(a, b) == IF a < b THEN a ELSE b
Max(a, b) == IF a > b THEN a ELSE b

RECURSIVE SumSeq(_)
SumSeq(s) == IF s = <<>> THEN 0 ELSE s[1] + SumSeq(Tail(s))

\* Array.prototype.splice(idx, 1)
RemoveAt(s, i) == SubSeq(s, 1, i - 1) \o SubSeq(s, i + 1, Len(s))

\* Array.prototype.flat on an array of arrays
RECURSIVE Flat(_)
Flat(ss) == IF ss = <<>> THEN <<>> ELSE ss[1] \o Flat(Tail(ss))

(***************************************************************************)
(* The numbers of JavaScript are IEEE-754 doubles, and the quotients of    *)
(* the source are rounded.  A double that is not negative is held as       *)
(* [bits, exp]: bits is its significand of 53 binary digits, the highest   *)
(* first and equal to 1, and the double is the integer they write times    *)
(* 2^exp; zero has no digit.  Every operation returns the double nearest   *)
(* to its exact result, the one of even significand on a tie.  Exponents   *)
(* stay far from the limits of the format for the numbers of the source    *)
(* (areas, percentages, milliseconds), so there is no subnormal number and *)
(* no infinity.                                                            *)
(***************************************************************************)
Zeros(k) == [i \in 1..k |-> 0]
PadLeft(a, n) == Zeros(n - Len(a)) \o a

\* the binary digits of a natural number on `width` digits, and without
\* leading zero (none for 0)
Bits(n, width) == [i \in 1..width |-> (n \div 2^(width - i)) % 2]

StripZeros(b) ==
    LET ones == { i \in 1..Len(b) : b[i] = 1 }
    IN IF ones = {} THEN <<>>
       ELSE SubSeq(b, CHOOSE i \in ones : \A j \in ones : i <= j, Len(b))

BitsOf(n) == StripZeros(Bits(n, 31))

\* the number that at most 31 digits write
RECURSIVE BitsVal(_)
BitsVal(b) ==
    IF b = <<>> THEN 0
    ELSE IF Len(b) = 1 THEN b[1]
    ELSE LET h == Len(b) \div 2
         IN BitsVal(SubSeq(b, 1, h)) * 2^(Len(b) - h) + BitsVal(SubSeq(b, h + 1, Len(b)))

\* Long digit sequences are worked on 15 digits at a time, from the right.
LimbLen(a) == Min(15, Len(a))
LowLimb(a) == SubSeq(a, Len(a) - LimbLen(a) + 1, Len(a))
HighLimbs(a) == SubSeq(a, 1, Len(a) - LimbLen(a))

\* a + b + c on digit sequences of one length, c the carry in
RECURSIVE AddBits(_, _, _)
AddBits(a, b, c) ==
    IF a = <<>> THEN (IF c = 1 THEN <<1>> ELSE <<>>)
    ELSE LET k == LimbLen(a)
             s == BitsVal(LowLimb(a)) + BitsVal(LowLimb(b)) + c
         IN AddBits(HighLimbs(a), HighLimbs(b), s \div 2^k) \o Bits(s % 2^k, k)

\* a - b - c on digit sequences of one length, a >= b + c, c the borrow in
RECURSIVE SubBits(_, _, _)
SubBits(a, b, c) ==
    IF a = <<>> THEN <<>>
    ELSE LET k == LimbLen(a)
             d == BitsVal(LowLimb(a)) - BitsVal(LowLimb(b)) - c
         IN SubBits(HighLimbs(a), HighLimbs(b), IF d < 0 THEN 1 ELSE 0)
               \o Bits((d + 2^k) % 2^k, k)

\* -1, 0 or 1 as a < b, a = b or a > b, on digit sequences of one length
CmpBits(a, b) ==
    LET diff == { i \in 1..Len(a) : a[i] # b[i] }
        first == CHOOSE i \in diff : \A j \in diff : i <= j
    IN IF diff = {} THEN 0 ELSE IF a[first] < b[first] THEN -1 ELSE 1

\* a * k + c for naturals k, c < 2^15
RECURSIVE MulBits(_, _, _)
MulBits(a, k, c) ==
    IF a = <<>> THEN BitsOf(c)
    ELSE LET n == LimbLen(a)
             s == BitsVal(LowLimb(a)) * k + c
         IN MulBits(HighLimbs(a), k, s \div 2^n) \o Bits(s % 2^n, n)

\* the remainder of the division by n of r * 2^Len(a) + a, for r < n < 2^30
\* (r is looked at first, so that it is computed before a is split)
RECURSIVE RemBits(_, _, _)
RemBits(a, n, r) ==
    IF r < 0 \/ a = <<>> THEN r
    ELSE IF Len(a) = 1 THEN (2 * r + a[1]) % n
    ELSE LET h == Len(a) \div 2
         IN RemBits(SubSeq(a, h + 1, Len(a)), n, RemBits(SubSeq(a, 1, h), n, r))

\* the digits of the quotient of a by n, by long division: digit i is 1
\* when the remainder of the digits before it, doubled, with digit i
\* reaches n
DivBits(a, n) ==
    [i \in 1..Len(a) |->
        IF 2 * RemBits(SubSeq(a, 1, i - 1), n, 0) + a[i] >= n THEN 1 ELSE 0]

FZero == [bits |-> <<>>, exp |-> 0]

\* The double nearest to (b + f) * 2^exp, where b is the number the digits
\* write and f, in [0, 1), is not 0 exactly when sticky (and then b has more
\* than 54 digits): round to nearest, ties to even.
FRound(b0, sticky, exp) ==
    LET b == StripZeros(b0)
        L == Len(b)
    IN IF L = 0 THEN FZero
       ELSE IF L <= 53 THEN [bits |-> b \o Zeros(53 - L), exp |-> exp - (53 - L)]
       ELSE LET keep == SubSeq(b, 1, 53)
                rest == sticky \/ \E i \in 55..L : b[i] = 1
                up == b[54] = 1 /\ (rest \/ keep[53] = 1)
                inc == AddBits(keep, Zeros(53), 1)
            IN IF ~up THEN [bits |-> keep, exp |-> exp + (L - 53)]
               ELSE IF Len(inc) = 54
                    THEN [bits |-> SubSeq(inc, 1, 53), exp |-> exp + (L - 53) + 1]
               ELSE [bits |-> inc, exp |-> exp + (L - 53)]

\* the double of a natural number
FOfInt(n) == FRound(BitsOf(n), FALSE, 0)

\* x / n for a natural n in 1 .. 2^30 - 1
FDivInt(x, n) ==
    LET a == x.bits \o Zeros(33)
    IN IF x.bits = <<>> THEN FZero
       ELSE FRound(DivBits(a, n), RemBits(a, n, 0) # 0, x.exp - 33)

\* x * k for a natural k < 2^15
FMulInt(x, k) == FRound(MulBits(x.bits, k, 0), FALSE, x.exp)

\* x + y
FAdd(x, y) ==
    IF x.bits = <<>> THEN y
    ELSE IF y.bits = <<>> THEN x
    ELSE LET e == Min(x.exp, y.exp)
             a == x.bits \o Zeros(x.exp - e)
             b == y.bits \o Zeros(y.exp - e)
             n == Max(Len(a), Len(b))
         IN FRound(AddBits(PadLeft(a, n), PadLeft(b, n), 0), FALSE, e)

\* x - y, as its sign and its absolute value
FSub(x, y) ==
    LET e == Min(x.exp, y.exp)
        a == x.bits \o Zeros(x.exp - e)
        b == y.bits \o Zeros(y.exp - e)
        n == Max(Len(a), Len(b))
        pa == PadLeft(a, n)
        pb == PadLeft(b, n)
    IN IF CmpBits(pa, pb) >= 0
       THEN [neg |-> FALSE, abs |-> FRound(SubBits(pa, pb, 0), FALSE, e)]
       ELSE [neg |-> TRUE, abs |-> FRound(SubBits(pb, pa, 0), FALSE, e)]

\* x < y
FLess(x, y) ==
    IF y.bits = <<>> THEN FALSE
    ELSE IF x.bits = <<>> THEN TRUE
    ELSE x.exp < y.exp \/ (x.exp = y.exp /\ CmpBits(x.bits, y.bits) < 0)

\* Math.round(x): the integer nearest to x, the higher one on a tie; x is
\* below 2^31
MathRound(x) ==
    LET k == -x.exp
    IN IF x.bits = <<>> \/ k > 53 THEN 0
       ELSE IF k <= 0 THEN BitsVal(x.bits \o Zeros(-k))
       ELSE BitsVal(SubSeq(x.bits, 1, 53 - k)) + x.bits[53 - k + 1]

\* the literal 0.01
Hundredth == FDivInt(FOfInt(1), 100)

(***************************************************************************)
(* The comparators the source sorts pieces with.  Criterion 0..3 are the   *)
(* entries of the optimizer's `criteria` array; AreaCriterion is the       *)
(* comparator of solve (the same function as criteria[3]).                 *)
(***************************************************************************)
AreaCriterion == 3

Cmp(c, a, b) ==
    CASE c = 0 -> b.longueur - a.longueur
      [] c = 1 -> b.largeur - a.largeur
      [] c = 2 -> Max(b.longueur, b.largeur) - Max(a.longueur, a.largeur)
      [] OTHER -> (b.longueur * b.largeur) - (a.longueur * a.largeur)

(***************************************************************************)
(* Array.prototype.sort(cmp): a stable sort (ECMAScript 2019).  Cmp(a, b)  *)
(* < 0 puts a first; elements that compare equal keep their order.         *)
(***************************************************************************)
RECURSIVE CountLeq(_, _, _)
CountLeq(c, x, sorted) ==
    IF sorted = <<>> \/ Cmp(c, sorted[1], x) > 0 THEN 0
    ELSE 1 + CountLeq(c, x, Tail(sorted))

InsertSorted(c, x, sorted) ==
    LET k == CountLeq(c, x, sorted)
    IN SubSeq(sorted, 1, k) \o <<x>> \o SubSeq(sorted, k + 1, Len(sorted))

RECURSIVE SortWith(_, _)
SortWith(c, s) ==
    IF s = <<>> THEN <<>>
    ELSE InsertSorted(c, s[Len(s)], SortWith(c, SubSeq(s, 1, Len(s) - 1)))

(***************************************************************************)
(* 2. DATA STRUCTURES                                                      *)
(***************************************************************************)
\* class Rect
Rect(x, y, w, h) == [x |-> x, y |-> y, w |-> w, h |-> h]
Area(r) == r.w * r.h

(***************************************************************************)
(* Sheet cells and numbers (UIManager.normalizeData, part_000:282-311).    *)
(* A cell of a sheet row is what getVal returns for one of its key lists:  *)
(* null when the row has none of the columns, else a number, a string kept *)
(* as its sequence of characters, or a boolean.  A number cell is given in *)
(* thousandths: NumCell(1500) is 1.5.                                      *)
(*                                                                         *)
(* A number read from a sheet is a decimal [neg, num, scale], standing for *)
(* (-1)^neg * num / 10^scale with num not a multiple of 10 unless scale is *)
(* 0: the shortest decimal of the double, which identifies it as long as   *)
(* num has at most 9 digits, the numbers of the model.                     *)
(***************************************************************************)
NullCell == [kind |-> "null", milli |-> 0, chars |-> <<>>]
NumCell(milli) == [kind |-> "num", milli |-> milli, chars |-> <<>>]
StrCell(chars) == [kind |-> "str", milli |-> 0, chars |-> chars]
BoolCell(b) == [kind |-> "bool", milli |-> IF b THEN 1 ELSE 0, chars |-> <<>>]

DigitChars == <<"0", "1", "2", "3", "4", "5", "6", "7", "8", "9">>
IsDigit(c) == \E d \in 1..10 : DigitChars[d] = c
DigitVal(c) == (CHOOSE d \in 1..10 : DigitChars[d] = c) - 1

\* the decimal of (-1)^neg * num / 10^scale; -0 and 0 are the same here:
\* the code only tests them with > 0 and ||
RECURSIVE DecNorm(_, _, _)
DecNorm(neg, num, scale) ==
    IF num = 0 THEN [neg |-> FALSE, num |-> 0, scale |-> 0]
    ELSE IF scale > 0 /\ num % 10 = 0 THEN DecNorm(neg, num \div 10, scale - 1)
    ELSE [neg |-> neg, num |-> num, scale |-> scale]

DecOfInt(n) == DecNorm(n < 0, Abs(n), 0)
DecOfMilli(milli) == DecNorm(milli < 0, Abs(milli), 3)

\* x > 0
DecPositive(d) == ~d.neg /\ d.num > 0

\* v.replace(',', '.'): the first comma only
RECURSIVE ReplaceFirstComma(_)
ReplaceFirstComma(s) ==
    IF s = <<>> THEN <<>>
    ELSE IF s[1] = "," THEN <<".">> \o Tail(s)
    ELSE <<s[1]>> \o ReplaceFirstComma(Tail(s))

\* .replace(/[^\d.-]/g, '')
KeepNumeric(s) == SelectSeq(s, LAMBDA c : IsDigit(c) \/ c = "." \/ c = "-")

\* the longest prefix of digits
RECURSIVE TakeDigits(_)
TakeDigits(s) ==
    IF s = <<>> \/ ~IsDigit(s[1]) THEN <<>>
    ELSE <<s[1]>> \o TakeDigits(Tail(s))

\* the value of a sequence of digits
RECURSIVE DigitsVal(_)
DigitsVal(ds) ==
    IF ds = <<>> THEN 0
    ELSE 10 * DigitsVal(SubSeq(ds, 1, Len(ds) - 1)) + DigitVal(ds[Len(ds)])

\* parseFloat(s) || 0 on a string of digits, dots and minus signs: the
\* longest prefix  -? digits* (. digits*)?  holding a digit, every decimal
\* of it kept; NaN gives 0
ParseFloatOr0(s) ==
    LET neg == s # <<>> /\ s[1] = "-"
        body == IF neg THEN Tail(s) ELSE s
        int == TakeDigits(body)
        rest == SubSeq(body, Len(int) + 1, Len(body))
        frac == IF rest # <<>> /\ rest[1] = "." THEN TakeDigits(Tail(rest)) ELSE <<>>
    IN IF int = <<>> /\ frac = <<>> THEN DecOfInt(0)
       ELSE DecNorm(neg, DigitsVal(int \o frac), Len(frac))

\* parseN of normalizeData; parseFloat of null or of a boolean is NaN
ParseN(v) ==
    CASE v.kind = "str" -> ParseFloatOr0(KeepNumeric(ReplaceFirstComma(v.chars)))
      [] v.kind = "num" -> DecOfMilli(v.milli)
      [] OTHER -> DecOfInt(0)

\* the decimal digits of a natural number, as `${n}` writes them
RECURSIVE DecimalChars(_)
DecimalChars(n) ==
    IF n < 10 THEN <<DigitChars[n + 1]>>
    ELSE DecimalChars(n \div 10) \o <<DigitChars[(n % 10) + 1]>>

\* String(x) of a number (Number::toString): with digits the digits of num
\* and n = Len(digits) - scale the position of the decimal point, the
\* digits with the point inside for 0 < n, '0.' and -n zeros before them
\* for -6 < n <= 0, and the exponential form d.ddde-k below 1e-6
DecChars(d) ==
    LET digits == DecimalChars(d.num)
        n == Len(digits) - d.scale
        sign == IF d.neg THEN <<"-">> ELSE <<>>
        body ==
            IF d.scale = 0 THEN digits
            ELSE IF n > 0
                 THEN SubSeq(digits, 1, n) \o <<".">> \o SubSeq(digits, n + 1, Len(digits))
            ELSE IF n > -6
                 THEN <<"0", ".">> \o [i \in 1..(-n) |-> "0"] \o digits
            ELSE <<digits[1]>>
                 \o (IF Len(digits) > 1 THEN <<".">> \o Tail(digits) ELSE <<>>)
                 \o <<"e", "-">> \o DecimalChars(1 - n)
    IN sign \o body

\* parseInt(s) || 1: the digits after an optional minus sign; no digit
\* (NaN) and 0 give 1
ParseIntOr1(s) ==
    LET neg == s # <<>> /\ s[1] = "-"
        int == TakeDigits(IF neg THEN Tail(s) ELSE s)
        v == DigitsVal(int)
    IN IF int = <<>> \/ v = 0 THEN 1 ELSE IF neg THEN -v ELSE v

\* parseInt(x) || 1 on a number: parseInt reads the string of the number
ParseQty(x) == ParseIntOr1(DecChars(x))

\* getVal(...) || fallback: an absent, empty, zero or false cell is falsy
Falsy(v) ==
    \/ v.kind = "null"
    \/ v.kind = "str" /\ v.chars = <<>>
    \/ v.kind = "num" /\ v.milli = 0
    \/ v.kind = "bool" /\ v.milli = 0

\* `${v}` of a cell
TemplateChars(v) ==
    CASE v.kind = "str" -> v.chars
      [] v.kind = "num" -> DecChars(DecOfMilli(v.milli))
      [] v.kind = "bool" ->
            IF v.milli = 1 THEN <<"t", "r", "u", "e">> ELSE <<"f", "a", "l", "s", "e">>
      [] OTHER -> <<"n", "u", "l", "l">>

\* `P-${index}`
DefaultRef(index) == StrCell(<<"P", "-">> \o DecimalChars(index))

\* `${ref}-${i}`
PieceId(ref, i) == TemplateChars(ref) \o <<"-">> \o DecimalChars(i)

\* A piece as normalizeData pushes it (part_000:306): unit i of a row whose
\* reference is the cell ref.  uid is the identity of the JavaScript object;
\* id is the characters of `${ref}-${i}`, which two objects may share.
SheetPiece(uid, ref, i, l, w, t, fin) ==
    [uid |-> uid, id |-> PieceId(ref, i), reference |-> ref, longueur |-> l,
     largeur |-> w, epaisseur |-> t, finition |-> fin]

\* The piece of row uid - 1 of a sheet without reference column and with a
\* quantity of one: reference `P-${index}`, id `P-${index}-0`.
Piece(uid, l, w, t, fin) == SheetPiece(uid, DefaultRef(uid - 1), 0, l, w, t, fin)

\* class PlacedPiece
PlacedPiece(piece, x, y, w, h, rotated) ==
    [id |-> piece.id, ref |-> piece.reference, x |-> x, y |-> y,
     width |-> w, height |-> h, rotation |-> IF rotated THEN 90 ELSE 0,
     originalPiece |-> piece]

\* material: null until the engine sets it
NullMaterial == [isNull |-> TRUE, thickness |-> 0, finish |-> "", label |-> ""]
Material(t, fin, label) ==
    [isNull |-> FALSE, thickness |-> t, finish |-> fin, label |-> label]

\* class PanelSolution (constructor); id is set by the engine on completion
PanelSolution(width, height) ==
    [width |-> width, height |-> height, pieces |-> <<>>,
     freeRects |-> <<Rect(0, 0, width, height)>>, offcuts |-> <<>>,
     material |-> NullMaterial, id |-> 0]

\* the sum the getters `utilization` and `waste` compute
UsedArea(panel) ==
    SumSeq([i \in 1..Len(panel.pieces) |->
                panel.pieces[i].width * panel.pieces[i].height])

\* get waste
Waste(panel) == (panel.width * panel.height) - UsedArea(panel)

(***************************************************************************)
(* 3. BINARY TREE PACKER                                                   *)
(***************************************************************************)
\* null
NullFit == [rectIdx |-> 0, w |-> 0, h |-> 0, rotated |-> FALSE]

\* a score as a bestScore, and `score < bestScore`
Score(score) == [isMax |-> FALSE, value |-> score]
ScoreBelow(score, bestScore) == bestScore.isMax \/ score < bestScore.value

\* The body of the for loop of _findBestFit, from index i on.
RECURSIVE ScanFit(_, _, _, _, _, _)
ScanFit(piece, freeRects, allowRotation, i, bestScore, bestFit) ==
    IF i > Len(freeRects) THEN bestFit
    ELSE
      LET r == freeRects[i]
          \* 1. normal orientation
          fitsN == piece.longueur <= r.w /\ piece.largeur <= r.h
          scoreN == Min(Abs(r.w - piece.longueur), Abs(r.h - piece.largeur))
          takeN == fitsN /\ ScoreBelow(scoreN, bestScore)
          score1 == IF takeN THEN Score(scoreN) ELSE bestScore
          fit1 == IF takeN
                  THEN [rectIdx |-> i, w |-> piece.longueur,
                        h |-> piece.largeur, rotated |-> FALSE]
                  ELSE bestFit
          \* 2. rotated, only if rotation is allowed
          fitsR == allowRotation /\ piece.largeur <= r.w /\ piece.longueur <= r.h
          scoreR == Min(Abs(r.w - piece.largeur), Abs(r.h - piece.longueur))
          takeR == fitsR /\ ScoreBelow(scoreR, score1)
          score2 == IF takeR THEN Score(scoreR) ELSE score1
          fit2 == IF takeR
                  THEN [rectIdx |-> i, w |-> piece.largeur,
                        h |-> piece.longueur, rotated |-> TRUE]
                  ELSE fit1
      IN ScanFit(piece, freeRects, allowRotation, i + 1, score2, fit2)

\* _findBestFit taking the first free rectangle the piece fits unrotated, if
\* there is one (first fit instead of best short side fit)
FindBestFitFirstFit(piece, freeRects, allowRotation) ==
    LET fits == { i \in 1..Len(freeRects) :
                    piece.longueur <= freeRects[i].w /\ piece.largeur <= freeRects[i].h }
    IN IF fits = {}
       THEN ScanFit(piece, freeRects, allowRotation, 1, MAX_VALUE, NullFit)
       ELSE [rectIdx |-> CHOOSE i \in fits : \A k \in fits : i <= k,
             w |-> piece.longueur, h |-> piece.largeur, rotated |-> FALSE]

\* _findBestFit trying the rotated orientation whatever allowRotation is
FindBestFitAlwaysRotating(piece, freeRects, allowRotation) ==
    ScanFit(piece, freeRects, TRUE, 1, MAX_VALUE, NullFit)

\* BinaryTreePacker._findBestFit
FindBestFit(piece, freeRects, allowRotation) ==
    ScanFit(piece, freeRects, allowRotation, 1, MAX_VALUE, NullFit)

\* _placePiece with the top rectangle of the vertical split spanning the whole
\* width of the free rectangle, so that it overlaps the right rectangle
SplitRectsOverlapping(rect, w, h) ==
    LET extraW == rect.w - w
        extraH == rect.h - h
        splitVertically ==
            Max(extraW * rect.h, w * extraH) > Max(extraW * h, rect.w * extraH)
    IN IF splitVertically
       THEN (IF extraW > 0 THEN <<Rect(rect.x + w, rect.y, extraW, rect.h)>> ELSE <<>>)
            \o (IF extraH > 0 THEN <<Rect(rect.x, rect.y + h, rect.w, extraH)>> ELSE <<>>)
       ELSE (IF extraH > 0 THEN <<Rect(rect.x, rect.y + h, rect.w, extraH)>> ELSE <<>>)
            \o (IF extraW > 0 THEN <<Rect(rect.x + w, rect.y, extraW, h)>> ELSE <<>>)

\* _placePiece with the right rectangle of the vertical split only as high as
\* the piece, so that the corner above it is lost
SplitRectsLossy(rect, w, h) ==
    LET extraW == rect.w - w
        extraH == rect.h - h
        splitVertically ==
            Max(extraW * rect.h, w * extraH) > Max(extraW * h, rect.w * extraH)
    IN IF splitVertically
       THEN (IF extraW > 0 THEN <<Rect(rect.x + w, rect.y, extraW, h)>> ELSE <<>>)
            \o (IF extraH > 0 THEN <<Rect(rect.x, rect.y + h, w, extraH)>> ELSE <<>>)
       ELSE (IF extraH > 0 THEN <<Rect(rect.x, rect.y + h, rect.w, extraH)>> ELSE <<>>)
            \o (IF extraW > 0 THEN <<Rect(rect.x + w, rect.y, extraW, h)>> ELSE <<>>)

\* _placePiece always splitting horizontally first
SplitRectsHorizontalFirst(rect, w, h) ==
    LET extraW == rect.w - w
        extraH == rect.h - h
    IN (IF extraH > 0 THEN <<Rect(rect.x, rect.y + h, rect.w, extraH)>> ELSE <<>>)
       \o (IF extraW > 0 THEN <<Rect(rect.x + w, rect.y, extraW, h)>> ELSE <<>>)

\* The two rectangles _placePiece pushes, in push order, zero extents skipped.
SplitRects(rect, w, h) ==
    LET extraW == rect.w - w
        extraH == rect.h - h
        optionA_Max == Max(extraW * rect.h, w * extraH)
        optionB_Max == Max(extraW * h, rect.w * extraH)
        splitVertically == optionA_Max > optionB_Max
    IN IF splitVertically
       THEN (IF extraW > 0 THEN <<Rect(rect.x + w, rect.y, extraW, rect.h)>> ELSE <<>>)
            \o (IF extraH > 0 THEN <<Rect(rect.x, rect.y + h, w, extraH)>> ELSE <<>>)
       ELSE (IF extraH > 0 THEN <<Rect(rect.x, rect.y + h, rect.w, extraH)>> ELSE <<>>)
            \o (IF extraW > 0 THEN <<Rect(rect.x + w, rect.y, extraW, h)>> ELSE <<>>)

\* BinaryTreePacker._placePiece
PlacePiece(panel, piece, fit) ==
    LET rect == panel.freeRects[fit.rectIdx]
    IN [panel EXCEPT
          !.pieces = Append(@, PlacedPiece(piece, rect.x, rect.y, fit.w, fit.h,
                                           fit.rotated)),
          !.freeRects = RemoveAt(@, fit.rectIdx) \o SplitRects(rect, fit.w, fit.h)]

\* panel.freeRects.filter(r => r.area >= CONFIG.algo.minOffcutArea)
RECURSIVE OffcutsOf(_)
OffcutsOf(rects) ==
    IF rects = <<>> THEN <<>>
    ELSE (IF Area(rects[1]) >= minOffcutArea THEN <<rects[1]>> ELSE <<>>)
         \o OffcutsOf(Tail(rects))

\* _finalizePanel retaining every free rectangle
FinalizePanelKeepingAll(panel) ==
    [panel EXCEPT !.offcuts = panel.freeRects,
                  !.freeRects = <<>>]

\* BinaryTreePacker._finalizePanel
FinalizePanel(panel) ==
    [panel EXCEPT !.offcuts = OffcutsOf(panel.freeRects),
                  !.freeRects = <<>>]

\* solve taking the pieces in the order given, without its sort by area
SolveOrderAsGiven(pieces) == pieces

\* the order in which solve takes the pieces: [...pieces].sort(by area desc)
SolveOrder(pieces) == SortWith(AreaCriterion, pieces)

\* solve forgetting a piece that does not fit the current panel instead of
\* deferring it to the next pass
TryPieceDropping(st, piece, allowRotation) ==
    LET fit == FindBestFit(piece, st.panel.freeRects, allowRotation)
    IN IF fit # NullFit
       THEN [st EXCEPT !.panel = PlacePiece(st.panel, piece, fit)]
       ELSE st

\* solve deferring a piece whose best fit is a rotated one instead of
\* placing it
TryPieceDeferringRotated(st, piece, allowRotation) ==
    LET fit == FindBestFit(piece, st.panel.freeRects, allowRotation)
    IN IF fit # NullFit /\ ~fit.rotated
       THEN [st EXCEPT !.panel = PlacePiece(st.panel, piece, fit)]
       ELSE [st EXCEPT !.nextPass = Append(@, piece)]

\* One step of the for loop of solve: try `piece` on `panel`.
\* st = [panel, nextPass]
TryPiece(st, piece, allowRotation) ==
    LET fit == FindBestFit(piece, st.panel.freeRects, allowRotation)
    IN IF fit # NullFit
       THEN [st EXCEPT !.panel = PlacePiece(st.panel, piece, fit)]
       ELSE [st EXCEPT !.nextPass = Append(@, piece)]

\* The for loop of solve over `remaining`, from index i on.
RECURSIVE PassFrom(_, _, _, _)
PassFrom(st, remaining, i, allowRotation) ==
    IF i > Len(remaining) THEN st
    ELSE PassFrom(TryPiece(st, remaining[i], allowRotation), remaining, i + 1,
                  allowRotation)

\* The while loop of solve.
RECURSIVE SolveLoop(_, _, _, _)
SolveLoop(panels, remaining, bin, allowRotation) ==
    IF Len(remaining) = 0 THEN panels
    ELSE
      LET st == PassFrom([panel |-> PanelSolution(bin.width, bin.height),
                          nextPass |-> <<>>], remaining, 1, allowRotation)
          panel == FinalizePanel(st.panel)
          out == Append(panels, panel)
      IN IF Len(panel.pieces) = 0 /\ Len(st.nextPass) > 0
         THEN out   \* safety break: "Piece too large for bin"
         ELSE SolveLoop(out, st.nextPass, bin, allowRotation)

\* BinaryTreePacker.solve, for a packer built with (plaqueDim, grainEnabled):
\* allowRotation = !grainEnabled.
Solve(pieces, bin, allowRotation) ==
    SolveLoop(<<>>, SolveOrder(pieces), bin, allowRotation)

(***************************************************************************)
(* 3b. One invocation of solve, statement by statement                     *)
(*                                                                         *)
(* pkInput, pkBin, pkRot : the arguments (pieces, plaqueDim, !grainEnabled)*)
(* pkPc        : "sort" | "while" | "for" | "endpass" | "done" | "off"      *)
(* pkRemaining : `remaining`;  pkIdx : position of the for loop in it      *)
(* pkSt        : [panel, nextPass], the panel being filled and `nextPass`  *)
(* pkPanels    : `panels`                                                  *)
(***************************************************************************)
VARIABLES pkInput, pkBin, pkRot, pkPc, pkRemaining, pkIdx, pkSt, pkPanels
\* the engine's state, described in section 4b
VARIABLES isRunning, stopRequested, now, run, obs, timers
VARIABLES grpPc, grpInput, grpGroups
VARIABLES callPc, callFn, callArgs, callResult
VARIABLES uiState, uiEls, uiTimers, uiObs

pkVars == <<pkInput, pkBin, pkRot, pkPc, pkRemaining, pkIdx, pkSt, pkPanels>>
engVars == <<isRunning, stopRequested, now, run, obs, timers>>
grpVars == <<grpPc, grpInput, grpGroups>>
callVars == <<callPc, callFn, callArgs, callResult>>
uiVars == <<uiState, uiEls, uiTimers, uiObs>>
vars == <<pkVars, engVars, grpVars, callVars, uiVars>>

\* Bounds of the packer inputs.
MaxPieces == 3

PieceDims ==
    { <<1400, 1035>>, <<700, 2070>>, <<800, 400>>, <<2790, 2070>>,
      <<2070, 1400>>, <<5000, 5000>> }

Bins == { CONFIG_plaque, [width |-> 1400, height |-> 1035] }

\* The piece lists of length 1..MaxPieces over PieceDims; uid = position.
PackInputs ==
    UNION { { [i \in 1..n |-> Piece(i, d[i][1], d[i][2], 19, "BLANC")] :
                d \in [1..n -> PieceDims] } : n \in 1..MaxPieces }

EmptySt == [panel |-> PanelSolution(0, 0), nextPass |-> <<>>]

PkOff ==
    /\ pkInput = <<>> /\ pkBin = CONFIG_plaque /\ pkRot = FALSE
    /\ pkPc = "off" /\ pkRemaining = <<>> /\ pkIdx = 0
    /\ pkSt = EmptySt /\ pkPanels = <<>>

PkInit ==
    /\ pkInput \in PackInputs
    /\ pkBin \in Bins
    /\ pkRot \in BOOLEAN
    /\ pkPc = "sort" /\ pkRemaining = <<>> /\ pkIdx = 0
    /\ pkSt = EmptySt /\ pkPanels = <<>>

\* const sorted = [...pieces].sort(...); const panels = []; let remaining = sorted;
PkSort ==
    /\ pkPc = "sort"
    /\ pkRemaining' = SolveOrder(pkInput)
    /\ pkPc' = "while"
    /\ UNCHANGED <<pkInput, pkBin, pkRot, pkIdx, pkSt, pkPanels>>
    /\ UNCHANGED <<engVars, grpVars, callVars, uiVars>>

\* while (remaining.length > 0) { const panel = new PanelSolution(..); const nextPass = [];
PkWhile ==
    /\ pkPc = "while"
    /\ IF Len(pkRemaining) > 0
       THEN /\ pkSt' = [panel |-> PanelSolution(pkBin.width, pkBin.height),
                        nextPass |-> <<>>]
            /\ pkIdx' = 1
            /\ pkPc' = "for"
       ELSE /\ pkPc' = "done"
            /\ UNCHANGED <<pkSt, pkIdx>>
    /\ UNCHANGED <<pkInput, pkBin, pkRot, pkRemaining, pkPanels>>
    /\ UNCHANGED <<engVars, grpVars, callVars, uiVars>>

\* for (const piece of remaining) { fit ? _placePiece : nextPass.push }
PkFor ==
    /\ pkPc = "for"
    /\ IF pkIdx <= Len(pkRemaining)
       THEN /\ pkSt' = TryPiece(pkSt, pkRemaining[pkIdx], pkRot)
            /\ pkIdx' = pkIdx + 1
            /\ pkPc' = "for"
       ELSE /\ pkPc' = "endpass"
            /\ UNCHANGED <<pkSt, pkIdx>>
    /\ UNCHANGED <<pkInput, pkBin, pkRot, pkRemaining, pkPanels>>
    /\ UNCHANGED <<engVars, grpVars, callVars, uiVars>>

\* the end of a pass without the safety break
PkEndPassNoBreak ==
    /\ pkPc = "endpass"
    /\ LET panel == FinalizePanel(pkSt.panel)
       IN /\ pkPanels' = Append(pkPanels, panel)
          /\ pkRemaining' = pkSt.nextPass
          /\ pkSt' = [pkSt EXCEPT !.panel = panel]
          /\ pkPc' = "while"
    /\ UNCHANGED <<pkInput, pkBin, pkRot, pkIdx>>
    /\ UNCHANGED <<engVars, grpVars, callVars, uiVars>>

\* _finalizePanel(panel); panels.push(panel); remaining = nextPass; safety break
PkEndPass ==
    /\ pkPc = "endpass"
    /\ LET panel == FinalizePanel(pkSt.panel)
       IN /\ pkPanels' = Append(pkPanels, panel)
          /\ pkRemaining' = pkSt.nextPass
          /\ pkSt' = [pkSt EXCEPT !.panel = panel]
          /\ pkPc' = IF Len(panel.pieces) = 0 /\ Len(pkSt.nextPass) > 0
                     THEN "done" ELSE "while"
    /\ UNCHANGED <<pkInput, pkBin, pkRot, pkIdx>>
    /\ UNCHANGED <<engVars, grpVars, callVars, uiVars>>

PkNext == PkSort \/ PkWhile \/ PkFor \/ PkEndPass

\* the key of _groupPieces built from the thickness alone
GroupKeyThickness(p) == ToString(p.epaisseur)

(***************************************************************************)
(* 4. OPTIMIZER ENGINE                                                     *)
(***************************************************************************)
\* const k = `${p.epaisseur}-${p.finition}`
GroupKey(p) == ToString(p.epaisseur) \o "-" \o p.finition

\* The forEach of _groupPieces from index i on; `groups` is Object.values of
\* the object built so far (string keys holding "-" keep insertion order).
RECURSIVE GroupFrom(_, _, _)
GroupFrom(groups, pieces, i) ==
    IF i > Len(pieces) THEN groups
    ELSE
      LET p == pieces[i]
          k == GroupKey(p)
          at == { j \in 1..Len(groups) : groups[j].id = k }
      IN IF at = {}
         THEN GroupFrom(Append(groups, [id |-> k, thickness |-> p.epaisseur,
                                        finish |-> p.finition, pieces |-> <<p>>]),
                        pieces, i + 1)
         ELSE LET j == CHOOSE j \in at : TRUE
              IN GroupFrom([groups EXCEPT ![j].pieces = Append(@, p)],
                           pieces, i + 1)

\* OptimizerEngine._groupPieces
GroupPieces(pieces) == GroupFrom(<<>>, pieces, 1)

\* Bound of the lists handed to _groupPieces on its own.
MaxGroupPieces == 3

\* Thickness and finish of the pieces of those lists; one finish holds the
\* "-" that the key is built with.
GroupThicknesses == {1, 19}
GroupFinishes == {"BLANC", "NOIR", "9-BLANC"}

\* The lists of at most MaxGroupPieces pieces over them; uid = position.
GroupInputs ==
    UNION { { [i \in 1..n |-> Piece(i, 800, 400, tf[i][1], tf[i][2])] :
                tf \in [1..n -> GroupThicknesses \X GroupFinishes] } :
            n \in 0..MaxGroupPieces }

GrpOff == grpPc = "off" /\ grpInput = <<>> /\ grpGroups = <<>>

GrpInit == grpPc = "call" /\ grpInput \in GroupInputs /\ grpGroups = <<>>

\* const groups = this._groupPieces(pieces)
GrpCall ==
    /\ grpPc = "call"
    /\ grpGroups' = GroupPieces(grpInput)
    /\ grpPc' = "done"
    /\ UNCHANGED <<grpInput, pkVars, engVars, callVars, uiVars>>

\* panels.forEach(p => p.material = { thickness, finish, label: g.id })
WithMaterial(panels, g) ==
    [i \in 1..Len(panels) |->
        [panels[i] EXCEPT !.material = Material(g.thickness, g.finish, g.id)]]

\* The cold start: groupBestPanels[g.id] = solve(g.pieces) with the material.
\* groupBestPanels is kept as a sequence aligned with `groups`.
ColdStart(groups, bin, allowRotation) ==
    [j \in 1..Len(groups) |->
        WithMaterial(Solve(groups[j].pieces, bin, allowRotation), groups[j])]

\* sum over the panels of the placed area
TotalUsed(panels) == SumSeq([i \in 1..Len(panels) |-> UsedArea(panels[i])])

\* getMaxOffcut: the largest offcut area over all panels, 0 if none
MaxOffcut(panels) ==
    LET areas == UNION { { Area(panels[i].offcuts[j]) :
                             j \in 1..Len(panels[i].offcuts) } :
                         i \in 1..Len(panels) }
    IN IF areas = {} THEN 0
       ELSE Max(0, CHOOSE m \in areas : \A a \in areas : a <= m)

\* get utilization: (used / (this.width * this.height)) * 100
Utilization(panel) ==
    FMulInt(FDivInt(FOfInt(UsedArea(panel)), panel.width * panel.height), 100)

\* panels.reduce((sum, p) => sum + p.utilization, 0) over the first k panels
RECURSIVE SumUtilization(_, _)
SumUtilization(panels, k) ==
    IF k = 0 THEN FZero
    ELSE FAdd(SumUtilization(panels, k - 1), Utilization(panels[k]))

\* getUtil of _isBetter, for at least one panel
GetUtil(panels) == FDivInt(SumUtilization(panels, Len(panels)), Len(panels))

\* the two lists have one length and all their panels one area
SameBins(a, b) ==
    /\ Len(a) = Len(b)
    /\ \A i \in 1..Len(a) :
          /\ a[i].width * a[i].height = a[1].width * a[1].height
          /\ b[i].width * b[i].height = a[1].width * a[1].height

(***************************************************************************)
(* The two tests of _isBetter on the means, candUtil > bestUtil + 0.01 and *)
(* candUtil < bestUtil - 0.01, are made on doubles.  For two lists of n    *)
(* panels of one area A the exact means differ by                          *)
(*    100 * (TotalUsed(a) - TotalUsed(b)) / (A * n),                       *)
(* so that away from a difference of exactly 0.01, that is                 *)
(*    10000 * (TotalUsed(a) - TotalUsed(b)) # A * n,                       *)
(* they are at least 1 / (100 * A * n) from it, far above the rounding     *)
(* errors of the doubles (below n * 10^-13), and the test on the doubles   *)
(* is the test on the integers                                             *)
(*    TotalUsed(a) - TotalUsed(b) > (A * n) \div 10000.                    *)
(* At a difference of exactly 0.01, and for lists that are not of this     *)
(* form, the doubles are computed as the source computes them.  For no     *)
(* panel both means are NaN and every comparison is false.                 *)
(***************************************************************************)
\* candUtil > bestUtil + 0.01, a the candidate and b the best
UtilExceeds(a, b) ==
    /\ Len(a) > 0 /\ Len(b) > 0
    /\ LET an == a[1].width * a[1].height * Len(a)
           diff == TotalUsed(a) - TotalUsed(b)
       IN IF SameBins(a, b) /\ ~(an % 10000 = 0 /\ diff = an \div 10000)
          THEN diff > an \div 10000
          ELSE FLess(FAdd(GetUtil(b), Hundredth), GetUtil(a))

\* candUtil < bestUtil - 0.01, a the candidate and b the best
UtilBelow(a, b) ==
    /\ Len(a) > 0 /\ Len(b) > 0
    /\ LET an == a[1].width * a[1].height * Len(a)
           diff == TotalUsed(b) - TotalUsed(a)
           low == FSub(GetUtil(b), Hundredth)
       IN IF SameBins(a, b) /\ ~(an % 10000 = 0 /\ diff = an \div 10000)
          THEN diff > an \div 10000
          ELSE ~low.neg /\ FLess(GetUtil(a), low.abs)

\* _isBetter without its third criterion: a tie on utilization is "no"
IsBetterNoOffcut(candidate, currentBest) ==
    IF Len(candidate) < Len(currentBest) THEN TRUE
    ELSE IF Len(candidate) > Len(currentBest) THEN FALSE
    ELSE IF UtilExceeds(candidate, currentBest) THEN TRUE
    ELSE FALSE

\* _isBetter answering true, not false, for a candidate of more panels
IsBetterMorePanels(candidate, currentBest) ==
    IF Len(candidate) < Len(currentBest) THEN TRUE
    ELSE IF Len(candidate) > Len(currentBest) THEN TRUE
    ELSE IF UtilExceeds(candidate, currentBest) THEN TRUE
    ELSE IF UtilBelow(candidate, currentBest) THEN FALSE
    ELSE MaxOffcut(candidate) > MaxOffcut(currentBest)

\* OptimizerEngine._isBetter
IsBetter(candidate, currentBest) ==
    IF Len(candidate) < Len(currentBest) THEN TRUE
    ELSE IF Len(candidate) > Len(currentBest) THEN FALSE
    ELSE IF UtilExceeds(candidate, currentBest) THEN TRUE
    ELSE IF UtilBelow(candidate, currentBest) THEN FALSE
    ELSE MaxOffcut(candidate) > MaxOffcut(currentBest)

\* The orders the Fisher-Yates loop can produce: every permutation.
Shuffles(pieces) ==
    { [i \in 1..Len(pieces) |-> pieces[f[i]]] : f \in Permutations(1..Len(pieces)) }

\* shuffledPieces: a random shuffle (Math.random() > 0.4) or the sort by
\* criteria[iteration % criteria.length]
Perturbations(pieces, iteration) ==
    Shuffles(pieces) \cup { SortWith(iteration % 4, pieces) }

\* the finalization taking the panels of the first group only
RenumberedFirstGroup(best) ==
    LET all == IF best = <<>> THEN <<>> ELSE best[1]
    IN [i \in 1..Len(all) |-> [all[i] EXCEPT !.id = i]]

\* allPanels = Object.values(groupBestPanels).flat(); p.id = i + 1
Renumbered(best) ==
    LET all == Flat(best)
    IN [i \in 1..Len(all) |-> [all[i] EXCEPT !.id = i]]

\* _formatResult dividing by panels.length without its `> 0` guard: 0/0 for
\* no panel
FormatResultUnguarded(panels, clock) ==
    [panels |-> panels,
     stats |-> [totalPanels |-> Len(panels),
                globalUtilization |->
                    [num |-> TotalUsed(panels),
                     den |-> SumSeq([i \in 1..Len(panels) |->
                                panels[i].width * panels[i].height])],
                totalCuts |-> SumSeq([i \in 1..Len(panels) |->
                                        4 + Len(panels[i].pieces)]),
                timestamp |-> clock]]

\* _formatResult counting one cut per piece, without the four of the panel
FormatResultCutsPerPiece(panels, clock) ==
    [panels |-> panels,
     stats |-> [totalPanels |-> Len(panels),
                globalUtilization |->
                    IF Len(panels) > 0
                    THEN [num |-> TotalUsed(panels),
                          den |-> SumSeq([i \in 1..Len(panels) |->
                                     panels[i].width * panels[i].height])]
                    ELSE [num |-> 0, den |-> 1],
                totalCuts |-> SumSeq([i \in 1..Len(panels) |->
                                        Len(panels[i].pieces)]),
                timestamp |-> clock]]

\* OptimizerEngine._formatResult.  globalUtilization is the exact mean
\* 100 * num / den percent (0 for no panel); timestamp is the clock.
FormatResult(panels, clock) ==
    [panels |-> panels,
     stats |-> [totalPanels |-> Len(panels),
                globalUtilization |->
                    IF Len(panels) > 0
                    THEN [num |-> TotalUsed(panels),
                          den |-> SumSeq([i \in 1..Len(panels) |->
                                     panels[i].width * panels[i].height])]
                    ELSE [num |-> 0, den |-> 1],
                totalCuts |-> SumSeq([i \in 1..Len(panels) |->
                                        4 + Len(panels[i].pieces)]),
                timestamp |-> clock]]

NoResult == FormatResult(<<>>, 0)

(***************************************************************************)
(* 4b. The engine and its runs                                             *)
(*                                                                         *)
(* isRunning, stopRequested : the fields of the one OptimizerEngine        *)
(* now  : the clock (performance.now()), in ms                             *)
(* run  : per invocation of start, its position and local variables       *)
(* obs  : per invocation, what its callbacks were handed and when          *)
(* timers : the host's queue of pending setTimeout(r, 0) callbacks, by     *)
(*          invocation; timers of equal delay fire in the order set        *)
(*                                                                         *)
(* JavaScript runs one callback at a time: an invocation of start runs     *)
(* from the call, or from a resumption, to its next `await` (pc "yield")   *)
(* or to its end (pc "done") without any other code running in between.    *)
(* stop() and start() are called by event handlers, so only when no        *)
(* invocation is in the middle of such a stretch.                          *)
(***************************************************************************)

\* Bounds of the engine runs.
MaxFastIter == 1

\* The invocations of start on the one engine: a first one and one started
\* while the first is suspended, which is what re-entrancy takes.
Runs == {1, 2}

\* How long packing one group's candidate takes; the short duration is
\* allowed in the first MaxFastIter iterations only, which bounds the run.
CycleDurations(iteration) ==
    IF iteration <= MaxFastIter THEN {10, 15000} ELSE {15000}

\* How long the host takes to resume a yielded run.
YieldDelays == {0}

\* The piece lists handed to start.
EngineInputs ==
    { \* no piece: no group, and every iteration has an empty for loop
      << >>,
      \* one group; the shuffle can save a panel
      << Piece(1, 1400, 1035, 19, "BLANC"), Piece(2, 700, 2070, 19, "BLANC") >>,
      \* two groups, interleaved; the second can gain a larger offcut
      << Piece(1, 1400, 1035, 19, "BLANC"), Piece(2, 1400, 1000, 19, "NOIR"),
         Piece(3, 700, 2070, 19, "BLANC"), Piece(4, 2800, 500, 19, "NOIR") >>,
      \* an oversize piece among valid ones
      << Piece(1, 5000, 5000, 19, "BLANC"), Piece(2, 800, 400, 19, "NOIR"),
         Piece(3, 800, 400, 19, "BLANC") >>,
      \* one group of pieces with distinct areas, from two rows of the same
      \* reference 'A': two objects with the one id 'A-0'
      << SheetPiece(1, StrCell(<<"A">>), 0, 700, 2000, 19, "BLANC"),
         SheetPiece(2, StrCell(<<"A">>), 0, 1400, 1035, 19, "BLANC") >> }

\* The piece lists handed to a start that follows another on the same engine.
RestartInputs ==
    { << Piece(1, 800, 400, 19, "NOIR") >> }

\* The piece lists normalizeData returns for the sheets the interface loads:
\* the empty list is a sheet with no valid row, the sheet of two pieces in
\* two materials has a result of two panels.
UiSheets ==
    RestartInputs \cup
    { << >>,
      << Piece(1, 800, 400, 19, "NOIR"), Piece(2, 800, 400, 19, "BLANC") >> }

\* Every list of pieces a run can hand to packer.solve in its loop: the
\* orders of the groups of the inputs.
SolveOrders ==
    UNION { UNION { Shuffles(GroupPieces(pieces)[j].pieces) :
                      j \in 1..Len(GroupPieces(pieces)) } :
            pieces \in EngineInputs \cup RestartInputs \cup UiSheets }

\* packer.solve(shuffledPieces) on each of them, for either setting of the
\* grain option, as pairs <<argument, panels>>; the table is computed once
\* and the loop reads its candidates from it.
SolveTable ==
    { <<a, Solve(a[1], CONFIG_plaque, a[2])>> : a \in SolveOrders \X BOOLEAN }

SolveMemo(order, allowRotation) ==
    (CHOOSE t \in SolveTable : t[1] = <<order, allowRotation>>)[2]

InitRun ==
    [pc |-> "init", pieces |-> <<>>, allowRotation |-> FALSE, groups |-> <<>>,
     best |-> <<>>, iteration |-> 0, startTime |-> 0, lastYieldTime |-> 0,
     lastImprovementTime |-> 0, currentTime |-> 0, gi |-> 0]

NoProgress == [percent |-> [num |-> 0, den |-> 1], iter |-> 0, timeLeft |-> 0,
               stability |-> 0]

InitObs ==
    [completions |-> 0, progressCount |-> 0, lastProgress |-> NoProgress,
     result |-> NoResult, exit |-> "none", endTime |-> 0, stopIter |-> 0,
     hist |-> <<>>, stopPending |-> FALSE]

EngInit ==
    /\ isRunning = FALSE
    /\ stopRequested = FALSE
    /\ now = 0
    /\ run = [r \in Runs |-> InitRun]
    /\ obs = [r \in Runs |-> InitObs]
    /\ timers = <<>>

\* No invocation is in the middle of a synchronous stretch.
Idle == \A r \in Runs : run[r].pc \in {"init", "yield", "done", "rejected"}

\* The invocation has begun and has neither returned nor thrown.
InProgress(r) == run[r].pc \notin {"init", "done", "rejected"}

(***************************************************************************)
(* Math.round((timeSinceImprovement / stabilityThresholdMs) * 100).  The   *)
(* exact value x = 100 * t / T is a multiple of 1/T: unless it is half an  *)
(* odd integer it is at least 1/T from the next one, far above the         *)
(* rounding error of the double, which then rounds as x does, to           *)
(* (200 * t + T) \div (2 * T).  When x is half an odd integer the double   *)
(* is computed as the source computes it: it can fall below the half.      *)
(***************************************************************************)
Stability(timeSinceImprovement) ==
    LET t2 == 2 * 100 * timeSinceImprovement
    IN IF t2 % stabilityThresholdMs = 0 /\ (t2 \div stabilityThresholdMs) % 2 = 1
       THEN MathRound(FMulInt(FDivInt(FOfInt(timeSinceImprovement),
                                      stabilityThresholdMs), 100))
       ELSE (t2 + stabilityThresholdMs) \div (2 * stabilityThresholdMs)

\* the progress event reporting the time progress without the cap of 99
ProgressEventUncapped(iteration, elapsed, timeSinceImprovement) ==
    [percent |-> [num |-> elapsed * 100, den |-> maxTimeMs],
     iter |-> iteration,
     timeLeft |-> Max(0, maxTimeMs - elapsed),
     stability |-> Stability(timeSinceImprovement)]

\* The progress event of a yield, from the times sampled at the loop top.
\* percent, Math.min((elapsed / maxTimeMs) * 100, 99), is held as the exact
\* fraction num / den, of which the double of the source is the nearest one.
ProgressEvent(iteration, elapsed, timeSinceImprovement) ==
    [percent |-> [num |-> Min(elapsed * 100, 99 * maxTimeMs), den |-> maxTimeMs],
     iter |-> iteration,
     timeLeft |-> Max(0, maxTimeMs - elapsed),
     stability |-> Stability(timeSinceImprovement)]

\* start leaving stopRequested as it finds it
StartKeepingStop(r, pieces, grainEnabled) ==
    /\ Idle
    /\ run[r].pc = "init"
    /\ (IF r = 1 THEN TRUE ELSE run[r - 1].pc # "init")
    /\ LET groups == GroupPieces(pieces)
           best == ColdStart(groups, CONFIG_plaque, ~grainEnabled)
       IN /\ run' = [run EXCEPT ![r] =
                       [pc |-> "loop", pieces |-> pieces,
                        allowRotation |-> ~grainEnabled, groups |-> groups,
                        best |-> best, iteration |-> 0, startTime |-> now,
                        lastYieldTime |-> now, lastImprovementTime |-> now,
                        currentTime |-> now, gi |-> 0]]
          /\ obs' = [obs EXCEPT ![r].hist = <<best>>,
                                 ![r].stopPending = stopRequested]
    /\ isRunning' = TRUE
    /\ UNCHANGED <<stopRequested, now, timers, pkVars, grpVars, callVars, uiVars>>

\* start(pieces, plaque, options, onProgress, onComplete), up to the loop:
\* the flags, the grouping, the cold start and the three time stamps.
\* obs.stopPending notes whether a stop request was standing at the call.
StartRun(r, pieces, grainEnabled) ==
    /\ Idle
    /\ run[r].pc = "init"
    /\ (IF r = 1 THEN TRUE ELSE run[r - 1].pc # "init")
    /\ LET groups == GroupPieces(pieces)
           best == ColdStart(groups, CONFIG_plaque, ~grainEnabled)
       IN /\ run' = [run EXCEPT ![r] =
                       [pc |-> "loop", pieces |-> pieces,
                        allowRotation |-> ~grainEnabled, groups |-> groups,
                        best |-> best, iteration |-> 0, startTime |-> now,
                        lastYieldTime |-> now, lastImprovementTime |-> now,
                        currentTime |-> now, gi |-> 0]]
          /\ obs' = [obs EXCEPT ![r].hist = <<best>>,
                                 ![r].stopPending = stopRequested]
    /\ isRunning' = TRUE
    /\ stopRequested' = FALSE
    /\ UNCHANGED <<now, timers>>

Start(r, pieces, grainEnabled) ==
    /\ StartRun(r, pieces, grainEnabled)
    /\ UNCHANGED <<pkVars, grpVars, callVars, uiVars>>

\* start(pieces, null, ...) or start(pieces, plaque, undefined, ...): the two
\* flags are assigned, then `new BinaryTreePacker(plaque, options.grainEnabled)`
\* throws a TypeError.  The setup is outside the try, so the promise of start
\* is rejected: no finalization, no onComplete.
StartThrows(r) ==
    /\ Idle
    /\ run[r].pc = "init"
    /\ (IF r = 1 THEN TRUE ELSE run[r - 1].pc # "init")
    /\ run' = [run EXCEPT ![r].pc = "rejected"]
    /\ isRunning' = TRUE
    /\ stopRequested' = FALSE
    /\ UNCHANGED <<obs, now, timers, pkVars, grpVars, callVars, uiVars>>

\* the loop top without the stability check
LoopTopNoStability(r, dt) ==
    /\ run[r].pc = "loop"
    /\ IF ~(isRunning /\ ~stopRequested)
       THEN /\ run' = [run EXCEPT ![r].pc = "finalize"]
            /\ obs' = [obs EXCEPT ![r].exit = "stop"]
            /\ UNCHANGED now
       ELSE LET it == run[r].iteration + 1
                elapsed == now - run[r].startTime
                exit == IF elapsed > maxTimeMs THEN "timeout" ELSE "none"
                next == IF exit # "none" THEN "finalize"
                        ELSE IF now - run[r].lastYieldTime > yieldInterval
                        THEN "yield"
                        ELSE IF Len(run[r].groups) = 0 THEN "loop" ELSE "cycle"
            IN /\ run' = [run EXCEPT ![r].iteration = it,
                                     ![r].currentTime = now,
                                     ![r].gi = 1,
                                     ![r].pc = next]
               /\ obs' = [obs EXCEPT ![r].exit = exit]
               /\ now' = IF next = "loop" THEN now + dt ELSE now
    /\ timers' = IF run'[r].pc = "yield" THEN Append(timers, r) ELSE timers
    /\ UNCHANGED <<isRunning, stopRequested, pkVars, grpVars, callVars, uiVars>>

\* The loop condition, iteration++, the time samples, the timeout and
\* stability checks and the decision to yield.  With no group the body of
\* the for loop is empty and the iteration only takes time (dt).
LoopTop(r, dt) ==
    /\ run[r].pc = "loop"
    /\ IF ~(isRunning /\ ~stopRequested)
       THEN /\ run' = [run EXCEPT ![r].pc = "finalize"]
            /\ obs' = [obs EXCEPT ![r].exit = "stop"]
            /\ UNCHANGED now
       ELSE LET it == run[r].iteration + 1
                elapsed == now - run[r].startTime
                timeSinceImprovement == now - run[r].lastImprovementTime
                exit == IF elapsed > maxTimeMs THEN "timeout"
                        ELSE IF timeSinceImprovement > stabilityThresholdMs
                        THEN "stability" ELSE "none"
                next == IF exit # "none" THEN "finalize"
                        ELSE IF now - run[r].lastYieldTime > yieldInterval
                        THEN "yield"
                        ELSE IF Len(run[r].groups) = 0 THEN "loop" ELSE "cycle"
            IN /\ run' = [run EXCEPT ![r].iteration = it,
                                     ![r].currentTime = now,
                                     ![r].gi = 1,
                                     ![r].pc = next]
               /\ obs' = [obs EXCEPT ![r].exit = exit]
               /\ now' = IF next = "loop" THEN now + dt ELSE now
    /\ timers' = IF run'[r].pc = "yield" THEN Append(timers, r) ELSE timers
    /\ UNCHANGED <<isRunning, stopRequested, pkVars, grpVars, callVars, uiVars>>

\* await new Promise(r => setTimeout(r, 0)) resumes after dt;
\* lastYieldTime = performance.now(); onProgress({...}), which may throw:
\* the catch around the loop then leads to the finalization.
YieldResume(r, dt, throws) ==
    /\ Idle
    /\ run[r].pc = "yield"
    /\ timers # <<>> /\ Head(timers) = r
    /\ timers' = Tail(timers)
    /\ now' = now + dt
    /\ run' = [run EXCEPT ![r].lastYieldTime = now + dt,
                          ![r].pc = IF throws THEN "finalize"
                                    ELSE IF Len(run[r].groups) = 0 THEN "loop"
                                    ELSE "cycle"]
    /\ obs' = [obs EXCEPT
                 ![r].progressCount = @ + 1,
                 ![r].lastProgress =
                     ProgressEvent(run[r].iteration,
                                   run[r].currentTime - run[r].startTime,
                                   run[r].currentTime - run[r].lastImprovementTime),
                 ![r].exit = IF throws THEN "error" ELSE @]
    /\ UNCHANGED <<isRunning, stopRequested, pkVars, grpVars, callVars, uiVars>>

\* the compare step refreshing the last-improvement time whether or not the
\* candidate wins
CyclePassAlwaysRefreshing(rn, candidatePanels, end) ==
    LET gi == rn.gi
        better == IsBetter(candidatePanels, rn.best[gi])
    IN [rn EXCEPT
          !.best = IF better
                   THEN [@ EXCEPT ![gi] = WithMaterial(candidatePanels, rn.groups[gi])]
                   ELSE @,
          !.lastImprovementTime = end,
          !.gi = gi + 1,
          !.pc = IF gi = Len(rn.groups) THEN "loop" ELSE "cycle"]

\* the replacement of a best without re-injecting the material
CyclePassNoMaterial(rn, candidatePanels, end) ==
    LET gi == rn.gi
        better == IsBetter(candidatePanels, rn.best[gi])
    IN [rn EXCEPT
          !.best = IF better THEN [@ EXCEPT ![gi] = candidatePanels] ELSE @,
          !.lastImprovementTime = IF better THEN end ELSE @,
          !.gi = gi + 1,
          !.pc = IF gi = Len(rn.groups) THEN "loop" ELSE "cycle"]

\* The end of one pass of `for (const group of groups)`: compare the
\* candidate with the group's best and replace the best if the candidate is
\* better; the pass ends at time `end`.  The value is the invocation's
\* variables after the pass.
CyclePass(rn, candidatePanels, end) ==
    LET gi == rn.gi
        better == IsBetter(candidatePanels, rn.best[gi])
    IN [rn EXCEPT
          !.best = IF better
                   THEN [@ EXCEPT ![gi] = WithMaterial(candidatePanels, rn.groups[gi])]
                   ELSE @,
          !.lastImprovementTime = IF better THEN end ELSE @,
          !.gi = gi + 1,
          !.pc = IF gi = Len(rn.groups) THEN "loop" ELSE "cycle"]

\* One pass of the for loop of an invocation: perturb (order), solve (taking
\* dt), compare, replace.
CycleGroup(r, dt, order) ==
    /\ run[r].pc = "cycle"
    /\ order \in Perturbations(run[r].groups[run[r].gi].pieces, run[r].iteration)
    /\ now' = now + dt
    /\ \E candidatePanels \in {SolveMemo(order, run[r].allowRotation)} :
          \E after \in {CyclePass(run[r], candidatePanels, now + dt)} :
             /\ run' = [run EXCEPT ![r] = after]
             /\ obs' = [obs EXCEPT ![r].hist = IF after.best # run[r].best
                                               THEN Append(@, after.best) ELSE @]
    /\ UNCHANGED <<isRunning, stopRequested, timers, pkVars, grpVars, callVars, uiVars>>

\* the finalization returning without calling onComplete
FinalizeSilent(r) ==
    /\ run[r].pc = "finalize"
    /\ isRunning' = FALSE
    /\ run' = [run EXCEPT ![r].pc = "done"]
    /\ obs' = [obs EXCEPT ![r].endTime = now]
    /\ UNCHANGED <<stopRequested, now, timers, pkVars, grpVars, callVars, uiVars>>

\* 3. Finalize: isRunning = false, flatten, renumber, format, onComplete.
FinalizeRun(r) ==
    /\ run[r].pc = "finalize"
    /\ isRunning' = FALSE
    /\ run' = [run EXCEPT ![r].pc = "done"]
    /\ \E allPanels \in {Renumbered(run[r].best)} :
          \E finalResult \in {FormatResult(allPanels, now)} :
             obs' = [obs EXCEPT ![r].completions = @ + 1,
                                ![r].result = finalResult,
                                ![r].endTime = now]
    /\ UNCHANGED <<stopRequested, now, timers>>

Finalize(r) ==
    /\ FinalizeRun(r)
    /\ UNCHANGED <<pkVars, grpVars, callVars, uiVars>>

\* stop().  obs.stopIter notes, for each invocation in progress, the
\* iteration it was in at the first such call.
StopCall ==
    /\ Idle
    /\ stopRequested' = TRUE
    /\ obs' = [r \in Runs |->
                 IF InProgress(r) /\ obs[r].stopIter = 0
                 THEN [obs[r] EXCEPT !.stopIter = run[r].iteration]
                 ELSE obs[r]]
    /\ UNCHANGED <<isRunning, now, run, timers>>

Stop ==
    /\ StopCall
    /\ UNCHANGED <<pkVars, grpVars, callVars, uiVars>>

RunStep(r) ==
    \/ \E dt \in CycleDurations(run[r].iteration + 1) : LoopTop(r, dt)
    \/ \E dt \in YieldDelays, throws \in BOOLEAN : YieldResume(r, dt, throws)
    \/ /\ run[r].pc = "cycle"
       /\ \E dt \in CycleDurations(run[r].iteration) :
            \E order \in Perturbations(run[r].groups[run[r].gi].pieces,
                                       run[r].iteration) :
               CycleGroup(r, dt, order)
    \/ Finalize(r)

EngNext ==
    \/ \E pieces \in EngineInputs, grainEnabled \in BOOLEAN :
         Start(1, pieces, grainEnabled)
    \/ \E r \in Runs \ {1}, pieces \in RestartInputs :
         \* a start after the earlier invocation has completed finds the
         \* engine as the first start does (it assigns both flags), so a
         \* later start is followed only when it overlaps the earlier one
         /\ InProgress(r - 1)
         /\ Start(r, pieces, TRUE)
    \/ \E r \in Runs :
         /\ (IF r = 1 THEN TRUE ELSE InProgress(r - 1))
         /\ StartThrows(r)
    \/ \E r \in Runs : RunStep(r)
    \/ Stop

(***************************************************************************)
(* 4c. Single calls of the functions of the packer, of the optimizer and   *)
(* of the interface.  callFn names the function, callArgs holds its        *)
(* arguments and callResult what it returns (or the object it has mutated).*)
(***************************************************************************)
CallOff == callPc = "off" /\ callFn = "none" /\ callArgs = <<>> /\ callResult = <<>>

\* the function `fn` is about to be called / has returned
Calling(fn) == callPc = "call" /\ callFn = fn
Called(fn) == callPc = "done" /\ callFn = fn

\* ---- _findBestFit on its own ----
\* Bound of the free lists handed to _findBestFit.
MaxFreeRects == 2

\* Sides of the pieces and of the free rectangles of those calls.
FitPieceSides == {300, 400}
FitRectSides == {300, 400, 600}

FitFreeLists ==
    UNION { { [i \in 1..n |-> Rect(0, 0, d[i][1], d[i][2])] :
                d \in [1..n -> FitRectSides \X FitRectSides] } :
            n \in 0..MaxFreeRects }

FitInit ==
    /\ callPc = "call" /\ callFn = "findBestFit" /\ callResult = <<>>
    /\ callArgs \in { [piece |-> Piece(1, l, w, 19, "BLANC"), freeRects |-> fr,
                       allowRotation |-> rot] :
                        l \in FitPieceSides, w \in FitPieceSides,
                        fr \in FitFreeLists, rot \in BOOLEAN }

\* bestFit = this._findBestFit(piece, freeRects)
FitCall ==
    /\ Calling("findBestFit")
    /\ callResult' = FindBestFit(callArgs.piece, callArgs.freeRects,
                                 callArgs.allowRotation)
    /\ callPc' = "done"
    /\ UNCHANGED <<callFn, callArgs, pkVars, engVars, grpVars, uiVars>>

\* ---- _placePiece on its own ----
\* The panels handed to _placePiece: free rectangles side by side.
PlaceFreeLists ==
    UNION { { [i \in 1..n |-> Rect((i - 1) * 1000, 0, d[i][1], d[i][2])] :
                d \in [1..n -> FitRectSides \X FitRectSides] } :
            n \in 1..MaxFreeRects }

\* panel, piece and the fit _findBestFit has returned for them (not null)
PlaceInit ==
    /\ callPc = "call" /\ callFn = "placePiece" /\ callResult = <<>>
    /\ callArgs \in
         { a \in { [panel |-> [PanelSolution(plaqueWidth, plaqueHeight)
                                 EXCEPT !.freeRects = fr],
                    piece |-> Piece(1, l, w, 19, "BLANC"),
                    fit |-> FindBestFit(Piece(1, l, w, 19, "BLANC"), fr, rot)] :
                     l \in FitPieceSides, w \in FitPieceSides,
                     fr \in PlaceFreeLists, rot \in BOOLEAN } :
             a.fit # NullFit }

\* this._placePiece(currentPanel, piece, bestFit); callResult is the panel after
PlaceCall ==
    /\ Calling("placePiece")
    /\ callResult' = PlacePiece(callArgs.panel, callArgs.piece, callArgs.fit)
    /\ callPc' = "done"
    /\ UNCHANGED <<callFn, callArgs, pkVars, engVars, grpVars, uiVars>>

\* ---- _isBetter on its own ----
\* Bound of the panel lists handed to _isBetter.
MaxSolutionPanels == 2

\* The pieces of the panels of those lists: two of nearly the same area
\* (their utilizations differ by less than 0.01) and a smaller one.
BetterPieceDims == { <<1000, 1000>>, <<999, 1001>>, <<800, 800>> }

\* The panels: an empty one, and one piece packed on a stock panel.
BetterPanels ==
    { FinalizePanel(PanelSolution(plaqueWidth, plaqueHeight)) }
    \cup { Solve(<<Piece(1, d[1], d[2], 19, "BLANC")>>, CONFIG_plaque, FALSE)[1] :
             d \in BetterPieceDims }

\* Two lists of five stock panels whose mean utilizations differ by 0.01
\* exactly: four panels of one piece 1000x1000 and a fifth of one piece
\* 31x138 or 10x138 (100 * (31 - 10) * 138 / (5 * 2800 * 2070) = 0.01).
BoundarySolution(l) ==
    [i \in 1..5 |->
        Solve(<<IF i < 5 THEN Piece(1, 1000, 1000, 19, "BLANC")
                ELSE Piece(1, l, 138, 19, "BLANC")>>, CONFIG_plaque, FALSE)[1]]

BetterSolutions ==
    UNION { [1..n -> BetterPanels] : n \in 0..MaxSolutionPanels }
    \cup { BoundarySolution(31), BoundarySolution(10) }

BetterInit ==
    /\ callPc = "call" /\ callFn = "isBetter" /\ callResult = <<>>
    /\ callArgs \in { [candidate |-> c, currentBest |-> b] :
                        c \in BetterSolutions, b \in BetterSolutions }

\* this._isBetter(candidatePanels, currentBest)
BetterCall ==
    /\ Calling("isBetter")
    /\ callResult' = IsBetter(callArgs.candidate, callArgs.currentBest)
    /\ callPc' = "done"
    /\ UNCHANGED <<callFn, callArgs, pkVars, engVars, grpVars, uiVars>>

\* ---- _isBetter on three solutions ----
\* Pieces of growing area (utilization 17.2533, 17.2602, 17.2671 percent of
\* the stock panel) that leave a shrinking largest offcut.
OrderPieceDims == { <<1000, 1000>>, <<1220, 820>>, <<1200, 834>> }

OrderPanels ==
    { Solve(<<Piece(1, d[1], d[2], 19, "BLANC")>>, CONFIG_plaque, FALSE)[1] :
        d \in OrderPieceDims }

OrderSolutions ==
    UNION { [1..n -> OrderPanels] : n \in 0..MaxSolutionPanels }

OrderInit ==
    /\ callPc = "call" /\ callFn = "isBetter3" /\ callResult = <<>>
    /\ callArgs \in { [a |-> a, b |-> b, c |-> c] :
                        a \in OrderSolutions, b \in OrderSolutions,
                        c \in OrderSolutions }

\* _isBetter on each ordered pair of the three solutions
OrderCall ==
    /\ Calling("isBetter3")
    /\ callResult' = [aa |-> IsBetter(callArgs.a, callArgs.a),
                      ab |-> IsBetter(callArgs.a, callArgs.b),
                      ba |-> IsBetter(callArgs.b, callArgs.a),
                      bc |-> IsBetter(callArgs.b, callArgs.c),
                      ac |-> IsBetter(callArgs.a, callArgs.c)]
    /\ callPc' = "done"
    /\ UNCHANGED <<callFn, callArgs, pkVars, engVars, grpVars, uiVars>>

\* ---- _finalizePanel on its own ----
\* Extents of the free rectangles left on the panels handed to
\* _finalizePanel: areas below, at and above minOffcutArea.
FinalizeRectWidths == {100, 200, 250, 300}
FinalizeRectHeights == {200, 250}

FinalizeFreeLists ==
    UNION { { [i \in 1..n |-> Rect((i - 1) * 1000, 0, d[i][1], d[i][2])] :
                d \in [1..n -> FinalizeRectWidths \X FinalizeRectHeights] } :
            n \in 0..MaxFreeRects }

FinalizeInit ==
    /\ callPc = "call" /\ callFn = "finalizePanel" /\ callResult = <<>>
    /\ callArgs \in { [panel |-> [PanelSolution(plaqueWidth, plaqueHeight)
                                    EXCEPT !.freeRects = fr]] :
                        fr \in FinalizeFreeLists }

\* this._finalizePanel(currentPanel); callResult is the panel after
FinalizeCall ==
    /\ Calling("finalizePanel")
    /\ callResult' = FinalizePanel(callArgs.panel)
    /\ callPc' = "done"
    /\ UNCHANGED <<callFn, callArgs, pkVars, engVars, grpVars, uiVars>>

\* ---- UIManager.normalizeData on its own ----
(***************************************************************************)
(* A row of the sheet is an object: here the sequence of its columns, in   *)
(* the order of Object.keys, each the characters of its name (key) and its *)
(* cell (val).                                                             *)
(***************************************************************************)
\* String.prototype.toLowerCase, on the letters A to Z
ToLowerCase(s) ==
    LET upper == <<"A", "B", "C", "D", "E", "F", "G", "H", "I", "J", "K", "L", "M", "N", "O", "P", "Q", "R", "S", "T", "U", "V", "W", "X", "Y", "Z">>
        lower == <<"a", "b", "c", "d", "e", "f", "g", "h", "i", "j", "k", "l", "m", "n", "o", "p", "q", "r", "s", "t", "u", "v", "w", "x", "y", "z">>
    IN [i \in 1..Len(s) |->
          IF \E j \in 1..26 : upper[j] = s[i]
          THEN lower[CHOOSE j \in 1..26 : upper[j] = s[i]]
          ELSE s[i]]

\* getVal(keys): the cell of the first column whose name is, whatever the
\* case, the first of the keys that names a column; null if none does
RECURSIVE GetVal(_, _)
GetVal(row, keys) ==
    LET found == { i \in 1..Len(row) : ToLowerCase(row[i].key) = ToLowerCase(keys[1]) }
    IN IF keys = <<>> THEN NullCell
       ELSE IF found # {} THEN row[CHOOSE i \in found : \A j \in found : i <= j].val
       ELSE GetVal(row, Tail(keys))

\* the key lists of the six calls of getVal
KeyLists ==
    [ DENOMINATION |->
          <<<<"D", "E", "N", "O", "M", "I", "N", "A", "T", "I", "O", "N">>,
            <<"R", "e", "f", "e", "r", "e", "n", "c", "e">>, <<"R", "e", "f">>>>,
      LONGUEUR |->
          <<<<"L", "O", "N", "G", "U", "E", "U", "R">>, <<"L">>>>,
      LARGEUR |->
          <<<<"L", "A", "R", "G", "E", "U", "R">>, <<"W">>>>,
      EPAISSEUR |->
          <<<<"E", "P", "A", "I", "S", "S", "E", "U", "R">>,
            <<"E", "p", "a", "i", "s", "s", "e", "u", "r">>, <<"E">>>>,
      QUANTITE |->
          <<<<"Q", "U", "A", "N", "T", "I", "T", "E">>, <<"Q", "t", "e">>, <<"Q">>>>,
      FINITION |->
          <<<<"F", "I", "N", "I", "T", "I", "O", "N">>, <<"F", "i", "n", "i", "s", "h">>>> ]

\* what the six calls of getVal return for a row
RowCells(row) ==
    [f \in DOMAIN KeyLists |-> GetVal(row, KeyLists[f])]

\* the pieces of one row; index is the row's position from 0; longueur,
\* largeur and epaisseur are decimals, reference is a cell, id the
\* characters of `${ref}-${i}`
NormalizeRow(row, index) ==
    LET cell == RowCells(row)
        ref == IF Falsy(cell.DENOMINATION) THEN DefaultRef(index) ELSE cell.DENOMINATION
        l == ParseN(cell.LONGUEUR)
        w == ParseN(cell.LARGEUR)
        t == ParseN(cell.EPAISSEUR)
        qty == ParseQty(ParseN(cell.QUANTITE))
        fin == IF Falsy(cell.FINITION) THEN StrCell(<<"S", "t", "d">>) ELSE cell.FINITION
    IN IF DecPositive(l) /\ DecPositive(w) /\ qty > 0
       THEN [i \in 1..qty |->
               [id |-> PieceId(ref, i - 1), reference |-> ref, longueur |-> l,
                largeur |-> w, epaisseur |-> t, finition |-> fin]]
       ELSE <<>>

\* UIManager.normalizeData
NormalizeData(data) ==
    Flat([k \in 1..Len(data) |-> NormalizeRow(data[k], k - 1)])

\* Bound of the sheets handed to normalizeData.
MaxRows == 2

\* The cells of the rows of those sheets: 800, "1,5", "0,0004" and "abc" for
\* a length, 400 and 0 for a width; no quantity, 0, 2, "2,5", -1, "" and
\* "0.0000005" (the number 5e-7) for a quantity.
LengthCells ==
    { NumCell(800000), StrCell(<<"1", ",", "5">>),
      StrCell(<<"0", ",", "0", "0", "0", "4">>), StrCell(<<"a", "b", "c">>) }
WidthCells == { NumCell(400000), NumCell(0) }
QuantityCells ==
    { NullCell, NumCell(0), NumCell(2000), StrCell(<<"2", ",", "5">>),
      NumCell(-1000), StrCell(<<>>),
      StrCell(<<"0", ".", "0", "0", "0", "0", "0", "0", "5">>) }

\* The names of the six columns of a sheet: the first key of each list, or
\* other keys the lists accept, in another case.
ColumnNames == [f \in DOMAIN KeyLists |-> KeyLists[f][1]]
OtherColumnNames ==
    [DENOMINATION |-> <<"r", "e", "f">>,
     LONGUEUR |-> <<"l">>,
     LARGEUR |-> <<"w">>,
     EPAISSEUR |-> <<"e", "p", "a", "i", "s", "s", "e", "u", "r">>,
     QUANTITE |-> <<"q", "t", "e">>,
     FINITION |-> <<"F", "i", "n", "i", "s", "h">>]

\* The row of a sheet with these column names and cells; a column whose
\* cell is null is not in the sheet.
SheetRow(names, cells) ==
    SelectSeq(<< [key |-> names.DENOMINATION, val |-> cells.DENOMINATION],
                 [key |-> names.LONGUEUR, val |-> cells.LONGUEUR],
                 [key |-> names.LARGEUR, val |-> cells.LARGEUR],
                 [key |-> names.EPAISSEUR, val |-> cells.EPAISSEUR],
                 [key |-> names.QUANTITE, val |-> cells.QUANTITE],
                 [key |-> names.FINITION, val |-> cells.FINITION] >>,
              LAMBDA c : c.val.kind # "null")

SheetRows ==
    { SheetRow(ColumnNames,
               [DENOMINATION |-> NullCell, LONGUEUR |-> l, LARGEUR |-> w,
                EPAISSEUR |-> NumCell(19000), QUANTITE |-> q, FINITION |-> NullCell]) :
        l \in LengthCells, w \in WidthCells, q \in QuantityCells }
    \cup
    { SheetRow(OtherColumnNames,
               [DENOMINATION |-> NullCell, LONGUEUR |-> l, LARGEUR |-> NumCell(400000),
                EPAISSEUR |-> NumCell(19000), QUANTITE |-> NumCell(2000),
                FINITION |-> NullCell]) :
        l \in LengthCells }

NormalizeInit ==
    /\ callPc = "call" /\ callFn = "normalizeData" /\ callResult = <<>>
    /\ callArgs \in { [data |-> d] :
                        d \in UNION { [1..n -> SheetRows] : n \in 1..MaxRows } }

\* The rows of sheets with a reference column: no reference, 'A', 'B',
\* 'P-1' (the reference a second row without one is given), the number
\* 12.5 or the text '12.5'; a quantity of one (absent) or two.
ReferenceCells ==
    { NullCell, StrCell(<<"A">>), StrCell(<<"B">>), StrCell(<<"P", "-", "1">>),
      NumCell(12500), StrCell(<<"1", "2", ".", "5">>) }

ReferenceRows ==
    { SheetRow(ColumnNames,
               [DENOMINATION |-> d, LONGUEUR |-> NumCell(800000),
                LARGEUR |-> NumCell(400000), EPAISSEUR |-> NumCell(19000),
                QUANTITE |-> q, FINITION |-> NullCell]) :
        d \in ReferenceCells, q \in {NullCell, NumCell(2000)} }

IdsInit ==
    /\ callPc = "call" /\ callFn = "normalizeData" /\ callResult = <<>>
    /\ callArgs \in { [data |-> d] :
                        d \in UNION { [1..n -> ReferenceRows] : n \in 1..MaxRows } }

\* const pieces = this.normalizeData(jsonData)
NormalizeCall ==
    /\ Calling("normalizeData")
    /\ callResult' = NormalizeData(callArgs.data)
    /\ callPc' = "done"
    /\ UNCHANGED <<callFn, callArgs, pkVars, engVars, grpVars, uiVars>>

(***************************************************************************)
(* 4d. The interface (UIManager): its state, the two result sections, the  *)
(* timers of the completion animation, and its handlers driving the        *)
(* engine.  uiState.result is <<>> for null and <<result>> otherwise.      *)
(* uiObs notes whether reset() has been called and which invocations of    *)
(* start had begun before its last call.                                   *)
(***************************************************************************)

\* this.state of the constructor
UiInitState ==
    [currentPanelIndex |-> 0, result |-> <<>>, pieces |-> <<>>,
     rotationEnabled |-> TRUE, isOptimizing |-> FALSE]

\* style.display of the two sections before any handler has assigned it,
\* whether the page has a progress bar (#opt-progress) and a table of the
\* pieces (#pieces-list), and the controls as the page shows
\* them first: startBtnStop is the start button in its stop state (label
\* 'Arreter', class danger), statusRunning the class running of the status,
\* grainDisabled the disabled attribute of the grain button
UiInitEls(progressBar, piecesList) ==
    [vizSection |-> "", exportSection |-> "", progressBar |-> progressBar,
     piecesList |-> piecesList,
     startBtnStop |-> FALSE, statusRunning |-> FALSE, grainDisabled |-> FALSE]

UiInitObs == [reset |-> FALSE, before |-> {}]

UiOff ==
    /\ uiState = UiInitState
    /\ uiEls = UiInitEls(TRUE, TRUE)
    /\ uiTimers = 0
    /\ uiObs = UiInitObs

UiInit ==
    /\ uiState = UiInitState
    /\ \E progressBar, piecesList \in BOOLEAN :
          uiEls = UiInitEls(progressBar, piecesList)
    /\ uiTimers = 0
    /\ uiObs = UiInitObs

\* reader.onload of processExcel: a non-empty list is stored and previewed,
\* an empty one only alerts.  displayPiecesPreview returns at once on a page
\* without #pieces-list, and hides the two sections otherwise.
UiLoad(pieces) ==
    /\ Idle
    /\ IF Len(pieces) > 0
       THEN /\ uiState' = [uiState EXCEPT !.pieces = pieces]
            /\ uiEls' = IF uiEls.piecesList
                        THEN [uiEls EXCEPT !.vizSection = "none",
                                           !.exportSection = "none"]
                        ELSE uiEls
       ELSE UNCHANGED <<uiState, uiEls>>
    /\ UNCHANGED <<uiTimers, uiObs, engVars, pkVars, grpVars, callVars>>

\* the click on the grain button, ignored while optimizing
UiGrainToggle ==
    /\ Idle
    /\ uiState' = IF uiState.isOptimizing THEN uiState
                  ELSE [uiState EXCEPT !.rotationEnabled = ~@]
    /\ UNCHANGED <<uiEls, uiTimers, uiObs, engVars, pkVars, grpVars, callVars>>

\* startOptimization() with pieces: the state and the sections, then
\* engine.start, whose invocation is r.
UiStartOptimization(r) ==
    /\ Len(uiState.pieces) > 0
    /\ uiState' = [uiState EXCEPT !.isOptimizing = TRUE, !.result = <<>>]
    /\ uiEls' = [uiEls EXCEPT !.startBtnStop = TRUE, !.statusRunning = TRUE,
                              !.grainDisabled = TRUE,
                              !.vizSection = "none", !.exportSection = "none"]
    /\ StartRun(r, uiState.pieces, ~uiState.rotationEnabled)
    /\ UNCHANGED <<uiTimers, uiObs, pkVars, grpVars, callVars>>

\* stopOptimization(): engine.stop(); the message cycle is display only.
UiStopOptimization ==
    /\ StopCall
    /\ UNCHANGED <<uiVars, pkVars, grpVars, callVars>>

\* the click on the start button: stop while optimizing, start otherwise
\* (startOptimization returns at once when there is no piece)
UiStartClick ==
    /\ Idle
    /\ IF uiState.isOptimizing
       THEN UiStopOptimization
       ELSE IF Len(uiState.pieces) = 0
       THEN UNCHANGED vars
       ELSE \E r \in Runs : UiStartOptimization(r)

\* reset(): stopOptimization(), a fresh state keeping rotationEnabled, the
\* sections hidden.
UiReset ==
    /\ StopCall
    /\ uiState' = [UiInitState EXCEPT !.rotationEnabled = uiState.rotationEnabled]
    /\ uiEls' = [uiEls EXCEPT !.vizSection = "none", !.exportSection = "none"]
    /\ uiObs' = [reset |-> TRUE, before |-> {r \in Runs : run[r].pc # "init"}]
    /\ UNCHANGED <<uiTimers, pkVars, grpVars, callVars>>

\* updateView(): nothing without a result or without a panel; otherwise the
\* two sections are displayed.  The value is this.els afterwards.
UpdateView(state, els) ==
    IF state.result = <<>> \/ Len(state.result[1].panels) = 0 THEN els
    ELSE [els EXCEPT !.vizSection = "block", !.exportSection = "block"]

\* finalize() of onComplete: the controls go back to their start state,
\* currentPanelIndex = 0, updateView(); the rest is labels.  The value is
\* <<this.state, this.els>> afterwards.
UiFinalize(state, els) ==
    LET st == [state EXCEPT !.currentPanelIndex = 0]
        controls == [els EXCEPT !.startBtnStop = FALSE, !.statusRunning = FALSE,
                                !.grainDisabled = FALSE]
    IN <<st, UpdateView(st, controls)>>

\* The finalization of invocation r with the interface's onComplete as its
\* callback: isOptimizing = false, state.result = result, and finalize()
\* after the two timers of the animation, or at once without progress bar.
UiOnComplete(r) ==
    /\ FinalizeRun(r)
    /\ LET st == [uiState EXCEPT !.isOptimizing = FALSE,
                                 !.result = <<obs'[r].result>>]
       IN IF uiEls.progressBar
          THEN /\ uiState' = st
               /\ uiTimers' = uiTimers + 1
               /\ UNCHANGED uiEls
          ELSE /\ uiState' = UiFinalize(st, uiEls)[1]
               /\ uiEls' = UiFinalize(st, uiEls)[2]
               /\ UNCHANGED uiTimers
    /\ UNCHANGED <<uiObs, pkVars, grpVars, callVars>>

\* The second timer of an animation fires: finalize().
UiFinalizeTimer ==
    /\ Idle
    /\ uiTimers > 0
    /\ uiTimers' = uiTimers - 1
    /\ uiState' = UiFinalize(uiState, uiEls)[1]
    /\ uiEls' = UiFinalize(uiState, uiEls)[2]
    /\ UNCHANGED <<uiObs, engVars, pkVars, grpVars, callVars>>

\* A step of invocation r under the interface; onProgress only writes
\* labels and the width of the progress bar.
UiRunStep(r) ==
    \/ \E dt \in CycleDurations(run[r].iteration + 1) : LoopTop(r, dt)
    \/ \E dt \in YieldDelays : YieldResume(r, dt, FALSE)
    \/ /\ run[r].pc = "cycle"
       /\ \E dt \in CycleDurations(run[r].iteration) :
            \E order \in Perturbations(run[r].groups[run[r].gi].pieces,
                                       run[r].iteration) :
               CycleGroup(r, dt, order)
    \/ UiOnComplete(r)

\* nav(dir) of the previous-panel and next-panel buttons: the index moves by
\* dir, kept within 0 and the last panel of the result (the upper limit is
\* applied last, so a result without panels leaves -1), then updateView().
\* Without a result the read of result.panels throws a TypeError before
\* anything is assigned.
UiNav(dir) ==
    /\ Idle
    /\ IF uiState.result = <<>>
       THEN UNCHANGED <<uiState, uiEls>>
       ELSE LET max == Len(uiState.result[1].panels) - 1
                moved == uiState.currentPanelIndex + dir
                atLeast0 == IF moved < 0 THEN 0 ELSE moved
                newIdx == IF atLeast0 > max THEN max ELSE atLeast0
                st == [uiState EXCEPT !.currentPanelIndex = newIdx]
            IN /\ uiState' = st
               /\ uiEls' = UpdateView(st, uiEls)
    /\ UNCHANGED <<uiTimers, uiObs, engVars, pkVars, grpVars, callVars>>

UiNext ==
    \/ \E pieces \in UiSheets : UiLoad(pieces)
    \/ \E dir \in {-1, 1} : UiNav(dir)
    \/ UiGrainToggle
    \/ UiStartClick
    \/ UiReset
    \/ UiFinalizeTimer
    \/ \E r \in Runs : UiRunStep(r)

(***************************************************************************)
(* Specifications                                                          *)
(***************************************************************************)
Init == PkOff /\ EngInit /\ GrpOff /\ CallOff /\ UiOff
Next == EngNext
Spec == Init /\ [][Next]_vars

\* Every invocation that can take a step eventually does: the host runs
\* pending timers and synchronous code runs to its next await.
FairSpec == Spec /\ \A r \in Runs : WF_vars(RunStep(r))

InitPack == PkInit /\ EngInit /\ GrpOff /\ CallOff /\ UiOff
NextPack == PkNext
SpecPack == InitPack /\ [][NextPack]_vars

InitGroup == PkOff /\ EngInit /\ GrpInit /\ CallOff /\ UiOff
NextGroup == GrpCall
SpecGroup == InitGroup /\ [][NextGroup]_vars

InitFit == PkOff /\ EngInit /\ GrpOff /\ FitInit /\ UiOff
NextFit == FitCall
SpecFit == InitFit /\ [][NextFit]_vars

InitPlace == PkOff /\ EngInit /\ GrpOff /\ PlaceInit /\ UiOff
NextPlace == PlaceCall
SpecPlace == InitPlace /\ [][NextPlace]_vars

InitBetter == PkOff /\ EngInit /\ GrpOff /\ BetterInit /\ UiOff
NextBetter == BetterCall
SpecBetter == InitBetter /\ [][NextBetter]_vars

InitOrder == PkOff /\ EngInit /\ GrpOff /\ OrderInit /\ UiOff
NextOrder == OrderCall
SpecOrder == InitOrder /\ [][NextOrder]_vars

InitFinalize == PkOff /\ EngInit /\ GrpOff /\ FinalizeInit /\ UiOff
NextFinalize == FinalizeCall
SpecFinalize == InitFinalize /\ [][NextFinalize]_vars

InitNormalize == PkOff /\ EngInit /\ GrpOff /\ NormalizeInit /\ UiOff
NextNormalize == NormalizeCall
SpecNormalize == InitNormalize /\ [][NextNormalize]_vars

\* The interface driving the engine.
InitUI == PkOff /\ EngInit /\ GrpOff /\ CallOff /\ UiInit
NextUI == UiNext
SpecUI == InitUI /\ [][NextUI]_vars

\* normalizeData on sheets with a reference column.
InitIds == PkOff /\ EngInit /\ GrpOff /\ IdsInit /\ UiOff
NextIds == NormalizeCall
SpecIds == InitIds /\ [][NextIds]_vars

\* solve is synchronous code: once called it runs on to its return.
FairSpecPack == SpecPack /\ WF_vars(NextPack)

(***************************************************************************)
(* 5. PROPERTIES                                                           *)
(***************************************************************************)
\* the rectangle a placed piece covers
Footprint(pp) == Rect(pp.x, pp.y, pp.width, pp.height)

\* two rectangles share interior points
Overlap(a, b) ==
    /\ a.x < b.x + b.w /\ b.x < a.x + a.w
    /\ a.y < b.y + b.h /\ b.y < a.y + a.h

InsidePanel(rc, panel) ==
    /\ 0 <= rc.x /\ rc.x + rc.w <= panel.width
    /\ 0 <= rc.y /\ rc.y + rc.h <= panel.height

PairwiseDisjoint(rects) ==
    \A i, j \in 1..Len(rects) : i < j => ~Overlap(rects[i], rects[j])

Footprints(panel) == [i \in 1..Len(panel.pieces) |-> Footprint(panel.pieces[i])]

SumAreas(rects) == SumSeq([i \in 1..Len(rects) |-> Area(rects[i])])

\* a piece fits an empty panel in an allowed orientation
FitsEmpty(p, bin, allowRotation) ==
    \/ p.longueur <= bin.width /\ p.largeur <= bin.height
    \/ allowRotation /\ p.largeur <= bin.width /\ p.longueur <= bin.height

\* how many placements of the piece `uid` the panels hold
Placements(panels, uid) ==
    SumSeq([i \in 1..Len(panels) |->
              Cardinality({ j \in 1..Len(panels[i].pieces) :
                              panels[i].pieces[j].originalPiece.uid = uid })])

\* C1, on returned panels: footprints inside the panel and pairwise
\* disjoint, offcuts disjoint from the footprints and from each other.
PanelLayoutOK(panel) ==
    /\ \A i \in 1..Len(panel.pieces) : InsidePanel(Footprint(panel.pieces[i]), panel)
    /\ PairwiseDisjoint(Footprints(panel) \o panel.offcuts)

(* C1: every panel solve has pushed to `panels` (so every panel it returns) *)
(* has all placed footprints inside the panel, no two footprints            *)
(* overlapping, and no retained offcut overlapping a footprint or another   *)
(* offcut.                                                                  *)
C1_NoOverlap ==
    \A i \in 1..Len(pkPanels) : PanelLayoutOK(pkPanels[i])

\* solve has returned a panel holding two pieces and two offcuts
C1_Witness ==
    /\ pkPc = "done"
    /\ \E i \in 1..Len(pkPanels) :
          Len(pkPanels[i].pieces) >= 2 /\ Len(pkPanels[i].offcuts) >= 2

(* C2: while a panel is being packed (from its construction up to           *)
(* _finalizePanel), its placed footprints and free rectangles are pairwise  *)
(* disjoint and their areas add up to width * height.                       *)
C2_Partition ==
    pkPc \in {"for", "endpass"} =>
       /\ PairwiseDisjoint(Footprints(pkSt.panel) \o pkSt.panel.freeRects)
       /\ SumAreas(Footprints(pkSt.panel)) + SumAreas(pkSt.panel.freeRects)
            = pkSt.panel.width * pkSt.panel.height

\* a panel under packing with two pieces placed and two free rectangles left
C2_Witness ==
    /\ pkPc = "for"
    /\ Len(pkSt.panel.pieces) >= 2
    /\ Len(pkSt.panel.freeRects) >= 2

(* C3: when solve returns, every input piece that fits an empty panel in an *)
(* allowed orientation is placed exactly once over the returned panels, and *)
(* every piece that fits no empty panel is placed zero times.               *)
C3_PlacedOnce ==
    pkPc = "done" =>
       \A k \in 1..Len(pkInput) :
          Placements(pkPanels, pkInput[k].uid)
             = IF FitsEmpty(pkInput[k], pkBin, pkRot) THEN 1 ELSE 0

\* solve has returned with a piece that was deferred to the second panel and
\* placed there, and with an oversize piece left out
C3_Witness ==
    /\ pkPc = "done"
    /\ Len(pkPanels) >= 2
    /\ Len(pkPanels[2].pieces) >= 1
    /\ \E k \in 1..Len(pkInput) : ~FitsEmpty(pkInput[k], pkBin, pkRot)

\* the pieces of `pieces` that fit are placed once over `panels`, the others
\* not at all
HoldsEachOnce(panels, pieces, allowRotation) ==
    \A k \in 1..Len(pieces) :
       Placements(panels, pieces[k].uid)
          = IF FitsEmpty(pieces[k], CONFIG_plaque, allowRotation) THEN 1 ELSE 0

(* C4: from the cold start on, each group's best is a complete and valid    *)
(* packing of the group's pieces, and the result handed to onComplete       *)
(* holds every input piece that fits the panel exactly once (and no other), *)
(* whatever ended the run.                                                  *)
C4_CompleteResult ==
    \A r \in Runs :
       /\ run[r].pc # "init" =>
             \A j \in 1..Len(run[r].groups) :
                /\ HoldsEachOnce(run[r].best[j], run[r].groups[j].pieces,
                                 run[r].allowRotation)
                /\ \A i \in 1..Len(run[r].best[j]) :
                      PanelLayoutOK(run[r].best[j][i])
       /\ obs[r].completions > 0 =>
             HoldsEachOnce(obs[r].result.panels, run[r].pieces,
                           run[r].allowRotation)

\* a run of two groups that improved a best and was then ended by an
\* exception has delivered its result
C4_Witness ==
    \E r \in Runs :
       /\ obs[r].completions = 1
       /\ obs[r].exit = "error"
       /\ Len(obs[r].hist) >= 2
       /\ Len(run[r].groups) >= 2

Started(r) == run[r].pc # "init"
Completed(r) == run[r].pc = "done"
\* the invocation has returned or thrown: none of its code will run again
Terminated(r) == run[r].pc \in {"done", "rejected"}

(* C5: every invocation of start delivers exactly one completion event:     *)
(* none while it runs, one from the moment it has returned and never a      *)
(* second; and once it is delivered no further progress event of that       *)
(* invocation is.  (That every invocation does return is part of C6.)       *)
C5_OneCompletion ==
    /\ [](\A r \in Runs :
            /\ obs[r].completions <= 1
            /\ Completed(r) <=> obs[r].completions = 1)
    /\ [][\A r \in Runs :
            obs[r].completions >= 1 =>
               /\ obs'[r].completions = obs[r].completions
               /\ obs'[r].progressCount = obs[r].progressCount]_vars

\* an invocation has delivered progress events and then its completion
C5_Witness ==
    \E r \in Runs :
       /\ obs[r].completions = 1
       /\ obs[r].progressCount >= 2

(* C5 as stated: each invocation of start delivers exactly one completion   *)
(* event: every invocation that has begun and is no longer in progress has  *)
(* delivered one.  (An invocation whose setup throws delivers none.)        *)
C5_Original ==
    \A r \in Runs : (Started(r) /\ ~InProgress(r)) => obs[r].completions = 1

(* C6 as stated: a run that ends by the stability or the timeout check      *)
(* ends no later than S after its last improvement and no later than T      *)
(* after the start of the loop.                                             *)
C6_Original ==
    \A r \in Runs :
       (Completed(r) /\ obs[r].exit \in {"stability", "timeout"}) =>
          /\ obs[r].endTime - run[r].lastImprovementTime <= stabilityThresholdMs
          /\ obs[r].endTime - run[r].startTime <= maxTimeMs

(* C6, amended: every run eventually terminates, by returning or by the     *)
(* exception of its setup (a terminated run stays so and the runs are       *)
(* finitely many, so this is: again and again every run begun has           *)
(* terminated).  The two limits are tested at the top of  *)
(* each iteration on the time sampled there: an iteration goes on to its    *)
(* yield or cycle only from a sample at most T after the start of the loop  *)
(* and at most S after the last improvement, the loop is left at the first  *)
(* loop top past either limit, and a run ended by one of the two checks     *)
(* ends strictly later than that limit.                                     *)
C6_Terminates ==
    /\ [](\A r \in Runs :
            /\ run[r].pc \in {"yield", "cycle"} =>
                  /\ run[r].currentTime - run[r].startTime <= maxTimeMs
                  /\ run[r].currentTime - run[r].lastImprovementTime
                        <= stabilityThresholdMs
            /\ (Completed(r) /\ obs[r].exit = "stability") =>
                  obs[r].endTime - run[r].lastImprovementTime > stabilityThresholdMs
            /\ (Completed(r) /\ obs[r].exit = "timeout") =>
                  obs[r].endTime - run[r].startTime > maxTimeMs)
    /\ [][\A r \in Runs :
            (/\ run[r].pc = "loop"
             /\ run'[r] # run[r]
             /\ \/ now - run[r].startTime > maxTimeMs
                \/ now - run[r].lastImprovementTime > stabilityThresholdMs)
            => run'[r].pc = "finalize"]_vars
    /\ []<>(\A r \in Runs : Started(r) => Terminated(r))

\* a run that improved a best after its start has been ended by the timeout
C6_Witness ==
    \E r \in Runs :
       /\ Completed(r)
       /\ obs[r].exit = "timeout"
       /\ run[r].lastImprovementTime > run[r].startTime

(* C7 as stated: once stop() has been called while a run is in progress,    *)
(* the run finishes at most the iteration it is in and begins no other.     *)
C7_Original ==
    \A r \in Runs :
       obs[r].stopIter > 0 => run[r].iteration <= obs[r].stopIter

\* candidate `a` has a mean utilization lower than `b`'s by more than 0.01
\* (percent), for two lists of n panels of the bin's area
MeanUtilLower(a, b) ==
    /\ Len(a) > 0
    /\ TotalUsed(b) - TotalUsed(a)
         > (plaqueWidth * plaqueHeight * Len(a)) \div 10000

(* C8: over the successive bests of each group of a run, the panel count    *)
(* never increases, and of two bests with the same panel count the later    *)
(* has a mean utilization not lower than the earlier by more than 0.01;     *)
(* the run's current bests are the last recorded ones.                      *)
C8_NoRegression ==
    \A r \in Runs :
       /\ (Started(r) /\ run[r].pc # "rejected")
             => run[r].best = obs[r].hist[Len(obs[r].hist)]
       /\ \A i, k \in 1..Len(obs[r].hist) :
             i < k =>
                \A j \in 1..Len(run[r].groups) :
                   /\ Len(obs[r].hist[k][j]) <= Len(obs[r].hist[i][j])
                   /\ Len(obs[r].hist[k][j]) = Len(obs[r].hist[i][j]) =>
                         ~MeanUtilLower(obs[r].hist[k][j], obs[r].hist[i][j])

\* a group's best has been replaced by one with fewer panels, and another
\* group's by one with the same number of panels
C8_Witness ==
    \E r \in Runs :
       /\ Len(obs[r].hist) >= 3
       /\ \E j \in 1..Len(run[r].groups) :
             Len(obs[r].hist[3][j]) < Len(obs[r].hist[1][j])
       /\ \E j \in 1..Len(run[r].groups) :
             /\ obs[r].hist[3][j] # obs[r].hist[1][j]
             /\ Len(obs[r].hist[3][j]) = Len(obs[r].hist[1][j])

(* C10 as stated: solve takes the pieces in the order of the list it is     *)
(* given, so the pieces still to place are always in the caller's order     *)
(* (PackInputs numbers the pieces by their position in the list).           *)
C10_Original ==
    pkPc \in {"while", "for", "endpass"} =>
       \A i, j \in 1..Len(pkRemaining) :
          i < j => pkRemaining[i].uid < pkRemaining[j].uid

(* C11: solve terminates on every input list: it reaches its return; a pass *)
(* that placed no piece while pieces remain is the last one (the next step  *)
(* is the return, no further panel is opened); and solve never opens more   *)
(* panels than it was given pieces.                                         *)
C11_SolveTerminates ==
    /\ <>(pkPc = "done")
    /\ [][(/\ pkPc = "endpass"
           /\ Len(pkSt.panel.pieces) = 0
           /\ Len(pkSt.nextPass) > 0) => pkPc' = "done"]_vars
    /\ [](Len(pkPanels) <= Len(pkInput))

\* solve has returned after a pass that placed nothing, with pieces that fit
\* no empty panel left over, having packed the other pieces before
C11_Witness ==
    /\ pkPc = "done"
    /\ Len(pkRemaining) > 0
    /\ Len(pkPanels) >= 2
    /\ Len(pkPanels[Len(pkPanels)].pieces) = 0

\* the pieces of a list that fit no empty panel, as (position, dimensions)
Oversize(pieces, bin, allowRotation) ==
    { <<pieces[k].uid, pieces[k].longueur, pieces[k].largeur>> :
        k \in { i \in 1..Len(pieces) : ~FitsEmpty(pieces[i], bin, allowRotation) } }

(* C12 as stated: the value solve returns identifies the pieces that were   *)
(* not placed, i.e. no other input list with other unplaced pieces makes    *)
(* the same packer return the same value.                                   *)
C12_Original ==
    pkPc = "done" =>
       \A other \in PackInputs :
          Solve(other, pkBin, pkRot) = pkPanels =>
             Oversize(other, pkBin, pkRot) = Oversize(pkInput, pkBin, pkRot)

\* in how many (group, position) places of `groups` the piece `uid` occurs
GroupPlaces(groups, uid) ==
    SumSeq([j \in 1..Len(groups) |->
              Cardinality({ i \in 1..Len(groups[j].pieces) :
                              groups[j].pieces[i].uid = uid })])

(* C13: _groupPieces partitions its input by the exact (thickness, finish)  *)
(* pair: every input piece is in exactly one group (and the groups hold     *)
(* nothing else), every piece of a group has the group's thickness and      *)
(* finish, and no two groups have the same pair.                            *)
C13_Partition ==
    grpPc = "done" =>
       /\ \A k \in 1..Len(grpInput) : GroupPlaces(grpGroups, grpInput[k].uid) = 1
       /\ SumSeq([j \in 1..Len(grpGroups) |-> Len(grpGroups[j].pieces)])
             = Len(grpInput)
       /\ \A j \in 1..Len(grpGroups) :
             \A i \in 1..Len(grpGroups[j].pieces) :
                /\ grpGroups[j].pieces[i] \in { grpInput[k] : k \in 1..Len(grpInput) }
                /\ grpGroups[j].pieces[i].epaisseur = grpGroups[j].thickness
                /\ grpGroups[j].pieces[i].finition = grpGroups[j].finish
       /\ \A j, k \in 1..Len(grpGroups) :
             (/\ grpGroups[j].thickness = grpGroups[k].thickness
              /\ grpGroups[j].finish = grpGroups[k].finish) => j = k

\* three pieces grouped in two groups: two of one pair, and one of the same
\* thickness and another finish
C13_Witness ==
    /\ grpPc = "done"
    /\ Len(grpInput) = 3
    /\ Len(grpGroups) = 2
    /\ grpGroups[1].thickness = grpGroups[2].thickness
    /\ Len(grpGroups[1].pieces) = 2

\* the panel has a material, and every piece on it is of that material
TaggedPanel(panel) ==
    /\ ~panel.material.isNull
    /\ \A i \in 1..Len(panel.pieces) :
          /\ panel.pieces[i].originalPiece.epaisseur = panel.material.thickness
          /\ panel.pieces[i].originalPiece.finition = panel.material.finish

(* C14: every panel of the result delivered on completion carries a         *)
(* material, and all pieces on it have the thickness and the finish of that *)
(* material (so no panel mixes two groups); the same holds of every best    *)
(* held during the run.                                                     *)
C14_MaterialTag ==
    \A r \in Runs :
       /\ obs[r].completions > 0 =>
             \A i \in 1..Len(obs[r].result.panels) :
                TaggedPanel(obs[r].result.panels[i])
       /\ \A j \in 1..Len(run[r].best) :
             \A i \in 1..Len(run[r].best[j]) : TaggedPanel(run[r].best[j][i])

\* a result of panels of two materials, one of them of a best that replaced
\* the cold start's
C14_Witness ==
    \E r \in Runs :
       /\ obs[r].completions = 1
       /\ Len(obs[r].hist) >= 2
       /\ \E i, k \in 1..Len(obs[r].result.panels) :
             obs[r].result.panels[i].material.finish
                # obs[r].result.panels[k].material.finish

\* the placed piece lies as its original piece is given
PlacedNormal(pp) ==
    /\ pp.rotation = 0
    /\ pp.width = pp.originalPiece.longueur
    /\ pp.height = pp.originalPiece.largeur

\* the placed piece lies turned by a quarter
PlacedRotated(pp) ==
    /\ pp.rotation = 90
    /\ pp.width = pp.originalPiece.largeur
    /\ pp.height = pp.originalPiece.longueur

\* the pieces solve has placed so far, on pushed panels and on the current one
PlacedSoFar ==
    Flat([i \in 1..Len(pkPanels) |-> pkPanels[i].pieces]) \o pkSt.panel.pieces

(* C15: without rotation (grainEnabled = true) every placed piece has       *)
(* rotation 0 and footprint (longueur, largeur); with rotation allowed      *)
(* every placed piece has either that, or rotation 90 and footprint         *)
(* (largeur, longueur).                                                     *)
C15_Rotation ==
    \A i \in 1..Len(PlacedSoFar) :
       LET pp == PlacedSoFar[i]
       IN IF pkRot THEN PlacedNormal(pp) \/ PlacedRotated(pp)
                   ELSE PlacedNormal(pp)

\* solve with rotation allowed has returned a panel holding a piece turned by
\* a quarter next to one that is not
C15_Witness ==
    /\ pkPc = "done" /\ pkRot
    /\ \E i \in 1..Len(pkPanels) :
          \E j, k \in 1..Len(pkPanels[i].pieces) :
             /\ PlacedRotated(pkPanels[i].pieces[j])
             /\ pkPanels[i].pieces[j].width # pkPanels[i].pieces[j].height
             /\ PlacedNormal(pkPanels[i].pieces[k])

(* C16: a stop request made while one is already standing leaves the engine *)
(* as it is; and a stop request made while no invocation is in progress     *)
(* does not end the invocation started afterwards: an invocation running    *)
(* alone ends on the stop condition only if stop was called during it, and  *)
(* leaves its first loop check with iteration 1.                            *)
C16_StopIdempotent ==
    /\ [][(Stop /\ stopRequested)
             => UNCHANGED <<isRunning, stopRequested, now, run, timers>>]_vars
    /\ [](run[2].pc = "init" =>
            /\ obs[1].exit = "stop" => obs[1].stopIter > 0
            /\ run[1].pc \notin {"init", "loop", "rejected"}
                  => run[1].iteration >= 1)

\* the invocation started with a stop request standing has completed on the
\* stability condition, after iterations of its own
C16_Witness ==
    /\ obs[1].stopPending /\ run[2].pc = "init"
    /\ obs[1].completions = 1 /\ obs[1].exit = "stability"
    /\ run[1].iteration >= 2

(* C17: an exception raised during an iteration of the loop is absorbed and *)
(* the loop goes on until a regular stop condition: every invocation that   *)
(* has completed left the loop on the timeout, on the stability condition   *)
(* or on a stop request.  (The try/catch encloses the whole loop, so an     *)
(* exception ends it.)                                                      *)
C17_Original ==
    \A r \in Runs :
       obs[r].completions > 0 => obs[r].exit \in {"timeout", "stability", "stop"}

(* C18: a run never ends as a hard abort: every invocation that has         *)
(* returned or thrown has delivered its completion event, with a result,    *)
(* and when no invocation is in progress isRunning is false.  (An exception *)
(* of the setup, which is outside the try, rejects the promise of start.)   *)
C18_Original ==
    /\ \A r \in Runs :
          Terminated(r) => obs[r].completions = 1 /\ obs[r].result # NoResult
    /\ (\A r \in Runs : ~InProgress(r)) => ~isRunning

\* the position in the input of the first piece of the material `label`
FirstOfMaterial(pieces, label) ==
    CHOOSE i \in 1..Len(pieces) :
       /\ GroupKey(pieces[i]) = label
       /\ \A k \in 1..(i - 1) : GroupKey(pieces[k]) # label

\* the panel with its number blanked
Unnumbered(panel) == [panel EXCEPT !.id = 0]

(* C19: the completion result lists the groups' best panels group after     *)
(* group, the groups in the order of their first piece in the input,        *)
(* numbered 1..N in that order; totalPanels = N, totalCuts is the sum over  *)
(* the panels of 4 + the number of pieces on the panel, and                 *)
(* globalUtilization is the mean of the panels' utilization (all panels     *)
(* have the area A of the stock panel, so the mean is the placed area over  *)
(* N * A).                                                                  *)
C19_ResultShape ==
    \A r \in Runs :
       obs[r].completions > 0 =>
          LET panels == obs[r].result.panels
              stats == obs[r].result.stats
              N == Len(panels)
              bests == Flat(run[r].best)
          IN /\ N = Len(bests)
             /\ \A i \in 1..N :
                   /\ panels[i].id = i
                   /\ Unnumbered(panels[i]) = Unnumbered(bests[i])
                   /\ panels[i].width * panels[i].height
                         = plaqueWidth * plaqueHeight
             /\ \A i, k \in 1..N :
                   i < k =>
                      FirstOfMaterial(run[r].pieces, panels[i].material.label)
                         <= FirstOfMaterial(run[r].pieces, panels[k].material.label)
             /\ stats.totalPanels = N
             /\ stats.totalCuts
                   = SumSeq([i \in 1..N |-> 4 + Len(panels[i].pieces)])
             /\ N > 0 =>
                   /\ stats.globalUtilization.num
                         = SumSeq([i \in 1..N |-> UsedArea(panels[i])])
                   /\ stats.globalUtilization.den
                         = N * plaqueWidth * plaqueHeight

\* a result of three panels or more, of two groups whose pieces alternate in
\* the input
C19_Witness ==
    \E r \in Runs :
       /\ obs[r].completions = 1
       /\ Len(run[r].groups) = 2
       /\ Len(obs[r].result.panels) >= 3
       /\ obs[r].result.panels[1].material.label
             = obs[r].result.panels[2].material.label
       /\ obs[r].result.stats.totalCuts >= 14

(* C20: an invocation of start with an empty piece list has no group, and   *)
(* the result it delivers is the empty one: no panel, totalPanels = 0,      *)
(* totalCuts = 0 and globalUtilization = 0 as a number (0 over a non-zero   *)
(* denominator, not 0/0).  (That the invocation does complete is part of    *)
(* C6.)                                                                     *)
C20_EmptyResult ==
    \A r \in Runs :
       (run[r].pc \notin {"init", "rejected"} /\ run[r].pieces = <<>>) =>
          /\ run[r].groups = <<>> /\ run[r].best = <<>>
          /\ obs[r].completions > 0 =>
                /\ obs[r].result.panels = <<>>
                /\ obs[r].result.stats.totalPanels = 0
                /\ obs[r].result.stats.totalCuts = 0
                /\ obs[r].result.stats.globalUtilization.num = 0
                /\ obs[r].result.stats.globalUtilization.den # 0

\* the invocation with no piece has iterated, yielded and delivered its result
C20_Witness ==
    \E r \in Runs :
       /\ run[r].pc = "done" /\ run[r].pieces = <<>>
       /\ obs[r].completions = 1
       /\ obs[r].progressCount >= 1
       /\ obs[r].exit = "stability"

(* C21: every progress event of every invocation has 0 <= percent <= 99    *)
(* (percent = num / den, den > 0) and timeLeft >= 0; 100 is never           *)
(* reported.                                                                *)
C21_ProgressRange ==
    \A r \in Runs :
       obs[r].progressCount > 0 =>
          LET e == obs[r].lastProgress
          IN /\ e.percent.den > 0
             /\ 0 <= e.percent.num
             /\ e.percent.num <= 99 * e.percent.den
             /\ e.timeLeft >= 0

\* a progress event whose time progress, 100 * elapsed / maxTimeMs, is above
\* 99 has been delivered, reporting 99
C21_Witness ==
    \E r \in Runs :
       /\ obs[r].progressCount >= 2
       /\ obs[r].lastProgress.percent.num = 99 * maxTimeMs
       /\ obs[r].lastProgress.timeLeft = 0

\* the side of the piece along x (w) and along y (h) in an orientation
OrientedW(piece, rotated) == IF rotated THEN piece.largeur ELSE piece.longueur
OrientedH(piece, rotated) == IF rotated THEN piece.longueur ELSE piece.largeur

\* the (free rectangle, orientation) pairs the piece fits
FittingPairs(piece, freeRects, allowRotation) ==
    { c \in (1..Len(freeRects)) \X BOOLEAN :
        /\ c[2] => allowRotation
        /\ OrientedW(piece, c[2]) <= freeRects[c[1]].w
        /\ OrientedH(piece, c[2]) <= freeRects[c[1]].h }

\* min(freeW - pieceW, freeH - pieceH) of a pair
ShortSideScore(piece, freeRects, c) ==
    Min(freeRects[c[1]].w - OrientedW(piece, c[2]),
        freeRects[c[1]].h - OrientedH(piece, c[2]))

\* pair c is met no later than pair d by the scan
MetFirst(c, d) == c[1] < d[1] \/ (c[1] = d[1] /\ (~c[2] \/ d[2]))

(* C22: _findBestFit returns null iff the piece fits no free rectangle in   *)
(* an allowed orientation; otherwise it returns a fitting pair, with the    *)
(* footprint of that orientation, whose score is minimal over all fitting   *)
(* pairs and which is the first met among those of that score.              *)
C22_BestFit ==
    Called("findBestFit") =>
       LET piece == callArgs.piece
           free == callArgs.freeRects
           cands == FittingPairs(piece, free, callArgs.allowRotation)
           fit == callResult
           got == <<fit.rectIdx, fit.rotated>>
       IN /\ fit = NullFit <=> cands = {}
          /\ cands # {} =>
                /\ got \in cands
                /\ fit.w = OrientedW(piece, fit.rotated)
                /\ fit.h = OrientedH(piece, fit.rotated)
                /\ \A c \in cands :
                      /\ ShortSideScore(piece, free, got)
                            <= ShortSideScore(piece, free, c)
                      /\ ShortSideScore(piece, free, got)
                            = ShortSideScore(piece, free, c) => MetFirst(got, c)

\* the piece fits the first rectangle unrotated, and the second rectangle is
\* returned for its lower score, with the piece unrotated although the
\* rotated piece, met next, has the same score
C22_Witness ==
    /\ Called("findBestFit")
    /\ callResult.rectIdx = 2 /\ ~callResult.rotated
    /\ {<<1, FALSE>>, <<2, TRUE>>}
          \subseteq FittingPairs(callArgs.piece, callArgs.freeRects,
                                 callArgs.allowRotation)
    /\ ShortSideScore(callArgs.piece, callArgs.freeRects, <<2, TRUE>>)
          = ShortSideScore(callArgs.piece, callArgs.freeRects, <<2, FALSE>>)
    /\ callArgs.piece.longueur # callArgs.piece.largeur

\* the extents <<w, h>> of rectangles, in order
Extents(rects) == [i \in 1..Len(rects) |-> <<rects[i].w, rects[i].h>>]

\* the extents among `es` with positive width and height, in order
PositiveExtents(es) == SelectSeq(es, LAMBDA e : e[1] > 0 /\ e[2] > 0)

(* C23: placing a piece of footprint usedW x usedH in a free rectangle      *)
(* freeW x freeH puts it at the rectangle's origin, removes that rectangle  *)
(* from the free list and appends (extraW x freeH, usedW x extraH) when     *)
(* max(extraW*freeH, usedW*extraH) > max(extraW*usedH, freeW*extraH) and    *)
(* (freeW x extraH, extraW x usedH) otherwise, leaving out a rectangle of   *)
(* zero width or height; the appended rectangles have the combined area     *)
(* freeW*freeH - usedW*usedH and every free rectangle has positive width    *)
(* and height.                                                              *)
C23_Split ==
    Called("placePiece") =>
       LET before == callArgs.panel
           after == callResult
           fit == callArgs.fit
           rect == before.freeRects[fit.rectIdx]
           usedW == fit.w
           usedH == fit.h
           freeW == rect.w
           freeH == rect.h
           extraW == freeW - usedW
           extraH == freeH - usedH
           kept == Len(before.freeRects) - 1
           added == SubSeq(after.freeRects, kept + 1, Len(after.freeRects))
           placed == after.pieces[Len(after.pieces)]
       IN /\ Len(after.pieces) = Len(before.pieces) + 1
          /\ placed.x = rect.x /\ placed.y = rect.y
          /\ placed.width = usedW /\ placed.height = usedH
          /\ SubSeq(after.freeRects, 1, kept) = RemoveAt(before.freeRects, fit.rectIdx)
          /\ Extents(added) =
                IF Max(extraW * freeH, usedW * extraH)
                      > Max(extraW * usedH, freeW * extraH)
                THEN PositiveExtents(<< <<extraW, freeH>>, <<usedW, extraH>> >>)
                ELSE PositiveExtents(<< <<freeW, extraH>>, <<extraW, usedH>> >>)
          /\ SumAreas(added) = freeW * freeH - usedW * usedH
          /\ \A i \in 1..Len(after.freeRects) :
                after.freeRects[i].w > 0 /\ after.freeRects[i].h > 0

\* a piece smaller than its rectangle both ways has been placed in the first
\* of two free rectangles, and the split is the vertical one
C23_Witness ==
    /\ Called("placePiece")
    /\ Len(callArgs.panel.freeRects) = 2 /\ callArgs.fit.rectIdx = 1
    /\ Len(callResult.freeRects) = 3
    /\ callResult.freeRects[2].h = callArgs.panel.freeRects[1].h
    /\ callResult.freeRects[3].w = callArgs.fit.w
    /\ callResult.freeRects[3].w < callArgs.panel.freeRects[1].w

\* the largest area of a retained offcut over all panels, 0 if there is none
LargestOffcut(panels) ==
    LET offcuts == Flat([i \in 1..Len(panels) |-> panels[i].offcuts])
        areas == {0} \cup { Area(offcuts[j]) : j \in 1..Len(offcuts) }
    IN CHOOSE m \in areas : \A a \in areas : a <= m

\* C24 as a predicate of two solutions, on their exact mean utilizations
BetterByMetrics(c, b) ==
    \/ Len(c) < Len(b)
    \/ Len(c) = Len(b) /\ MeanUtilLower(b, c)
    \/ /\ Len(c) = Len(b)
       /\ ~MeanUtilLower(b, c) /\ ~MeanUtilLower(c, b)
       /\ LargestOffcut(c) > LargestOffcut(b)

\* the exact mean utilizations of two lists of as many stock panels differ
\* by 0.01 exactly
MeanUtilAtEpsilon(a, b) ==
    /\ Len(a) = Len(b)
    /\ (plaqueWidth * plaqueHeight * Len(a)) % 10000 = 0
    /\ Abs(TotalUsed(a) - TotalUsed(b)) = (plaqueWidth * plaqueHeight * Len(a)) \div 10000

\* x - y > 1/100 for two doubles, as numbers: with d the difference of the
\* two significands brought to the lower exponent e, 100 * d * 2^e > 1
DoubleAbove(x, y) ==
    LET e == Min(x.exp, y.exp)
        a == x.bits \o Zeros(x.exp - e)
        b == y.bits \o Zeros(y.exp - e)
        n == Max(Len(a), Len(b))
        pa == PadLeft(a, n)
        pb == PadLeft(b, n)
        d100 == MulBits(SubBits(pa, pb, 0), 100, 0)
        one == <<1>> \o Zeros(-e)
        m == Max(Len(d100), Len(one))
    IN /\ CmpBits(pa, pb) > 0
       /\ IF e >= 0 THEN TRUE
          ELSE CmpBits(PadLeft(d100, m), PadLeft(one, m)) > 0

\* the mean utilization _isBetter computes for a is above the one it
\* computes for b by more than 0.01 (no mean without a panel)
MeanAbove(a, b) ==
    /\ Len(a) > 0 /\ Len(b) > 0
    /\ DoubleAbove(GetUtil(a), GetUtil(b))

\* C24 as a predicate of two solutions, on the means _isBetter computes
BetterByMeans(c, b) ==
    \/ Len(c) < Len(b)
    \/ Len(c) = Len(b) /\ MeanAbove(c, b)
    \/ /\ Len(c) = Len(b)
       /\ ~MeanAbove(c, b) /\ ~MeanAbove(b, c)
       /\ LargestOffcut(c) > LargestOffcut(b)

(* C24: _isBetter(candidate, best) is true exactly when the candidate has   *)
(* fewer panels; or as many and a mean utilization above the best's by more *)
(* than 0.01; or as many, mean utilizations within 0.01 of each other, and  *)
(* a strictly larger largest retained offcut.  The means are those          *)
(* _isBetter computes; for two solutions whose exact means do not differ by *)
(* 0.01 exactly the same holds of the exact means.                          *)
C24_IsBetter ==
    Called("isBetter") =>
       /\ callResult <=> BetterByMeans(callArgs.candidate, callArgs.currentBest)
       /\ ~MeanUtilAtEpsilon(callArgs.candidate, callArgs.currentBest)
             => (callResult <=> BetterByMetrics(callArgs.candidate,
                                                callArgs.currentBest))

\* a candidate of as many panels, of a slightly lower utilization (within
\* 0.01) and of a larger largest offcut has been found better
C24_Witness ==
    /\ Called("isBetter") /\ callResult
    /\ Len(callArgs.candidate) = 2 /\ Len(callArgs.currentBest) = 2
    /\ TotalUsed(callArgs.candidate) < TotalUsed(callArgs.currentBest)
    /\ LargestOffcut(callArgs.candidate) > LargestOffcut(callArgs.currentBest)

(* C25 as stated: "better than", as _isBetter computes it, is a strict      *)
(* order: no solution is better than itself, never both a better than b     *)
(* and b better than a, and a better than b with b better than c imply a    *)
(* better than c.  (The tolerance of 0.01 on the utilization makes the      *)
(* relation intransitive.)                                                  *)
C25_Original ==
    Called("isBetter3") =>
       /\ ~callResult.aa
       /\ ~(callResult.ab /\ callResult.ba)
       /\ (callResult.ab /\ callResult.bc) => callResult.ac

\* the two properties of C25 that do hold: irreflexive and asymmetric
C25_IrreflexiveAsymmetric ==
    Called("isBetter3") =>
       /\ ~callResult.aa
       /\ ~(callResult.ab /\ callResult.ba)

(* C26 as stated: the offcuts retained when a panel is finalized are        *)
(* exactly the free rectangles whose area exceeds minOffcutArea.  (A        *)
(* rectangle of exactly that area is retained.)                             *)
C26_Original ==
    Called("finalizePanel") =>
       callResult.offcuts
          = SelectSeq(callArgs.panel.freeRects, LAMBDA r : r.w * r.h > minOffcutArea)

(* C26, amended: the offcuts retained when a panel is finalized are exactly *)
(* the free rectangles present at that moment whose area is at least        *)
(* minOffcutArea, in the order of the free list; no free rectangle is left  *)
(* on the panel and nothing else of the panel changes.                      *)
C26_Retained ==
    Called("finalizePanel") =>
       /\ callResult.offcuts
             = SelectSeq(callArgs.panel.freeRects,
                         LAMBDA r : r.w * r.h >= minOffcutArea)
       /\ callResult.freeRects = <<>>
       /\ callResult.pieces = callArgs.panel.pieces

\* a panel left with a free rectangle of area minOffcutArea exactly and one
\* of a smaller area has been finalized, and has retained the former only
C26_Witness ==
    /\ Called("finalizePanel")
    /\ Len(callArgs.panel.freeRects) = 2
    /\ Area(callArgs.panel.freeRects[1]) < minOffcutArea
    /\ Area(callArgs.panel.freeRects[2]) = minOffcutArea
    /\ callResult.offcuts = <<callArgs.panel.freeRects[2]>>

\* the compare step of invocation r for its current group, on the candidate
\* `cand`, as C27 describes it
CompareFrame(r, cand) ==
    LET g == run[r].gi
    IN /\ run'[r].groups = run[r].groups
       /\ run'[r].pieces = run[r].pieces
       /\ \A j \in 1..Len(run[r].best) : j # g => run'[r].best[j] = run[r].best[j]
       /\ Len(run'[r].best) = Len(run[r].best)
       /\ IF IsBetter(cand, run[r].best[g])
          THEN /\ run'[r].best[g] = WithMaterial(cand, run[r].groups[g])
               /\ run'[r].lastImprovementTime = now'
          ELSE /\ run'[r].best[g] = run[r].best[g]
               /\ run'[r].lastImprovementTime = run[r].lastImprovementTime

(* C27: in each compare step for a group g there is a candidate (the        *)
(* packing of a perturbation of g's pieces) such that: if it does not win,  *)
(* the bests and the last-improvement time are unchanged; if it wins, g's   *)
(* best becomes the candidate and the last-improvement time the present;    *)
(* the bests of the other groups, every group's piece list and the other    *)
(* invocation are unchanged either way.                                     *)
C27_CompareFrame ==
    [][\A r \in Runs :
         (run[r].pc = "cycle" /\ run'[r] # run[r]) =>
            /\ \A q \in Runs \ {r} : run'[q] = run[q]
            /\ \E order \in Perturbations(run[r].groups[run[r].gi].pieces,
                                          run[r].iteration) :
                  CompareFrame(r, SolveMemo(order, run[r].allowRotation))]_vars

\* the second of two groups has had its best replaced while the first kept
\* its own, and a later compare step has left both as they were
C27_Witness ==
    \E r \in Runs :
       /\ Len(run[r].groups) = 2
       /\ Len(obs[r].hist) = 2
       /\ obs[r].hist[2][1] = obs[r].hist[1][1]
       /\ obs[r].hist[2][2] # obs[r].hist[1][2]
       /\ run[r].lastImprovementTime > run[r].startTime
       /\ run[r].currentTime > run[r].lastImprovementTime

(* C28 as stated: isRunning is true from the call of start until the loop   *)
(* is left, it is false when onComplete is invoked, and no                  *)
(* perturb-pack-compare step of an invocation executes while isRunning is   *)
(* false or after that invocation's completion event.  (The flag belongs to *)
(* the engine, not to the invocation: the finalization of one invocation    *)
(* clears it under another that is still in its loop.)                      *)
C28_Original ==
    /\ [](\A r \in Runs : run[r].pc \in {"loop", "yield", "cycle"} => isRunning)
    /\ [][\A r \in Runs :
            obs'[r].completions # obs[r].completions => ~isRunning']_vars
    /\ [][\A r \in Runs :
            (run[r].pc = "cycle" /\ run'[r] # run[r])
               => (isRunning /\ obs[r].completions = 0)]_vars

\* C28 for an invocation that runs alone on its engine
C28_RunningAlone ==
    /\ [](run[2].pc = "init" =>
             (run[1].pc \in {"loop", "yield", "cycle"} => isRunning))
    /\ [][\A r \in Runs :
            obs'[r].completions # obs[r].completions => ~isRunning']_vars
    /\ [][(run[2].pc = "init" /\ run[1].pc = "cycle" /\ run'[1] # run[1])
             => (isRunning /\ obs[1].completions = 0)]_vars

\* the pieces of the result that come from the row at position k (the rows
\* of the sheets have no DENOMINATION, so the reference names the row)
PiecesOfRow(pieces, k) ==
    SelectSeq(pieces, LAMBDA p : p.reference = DefaultRef(k - 1))

(* C30 as stated: a row yields pieces only if its parsed length, width and  *)
(* quantity are all > 0, and then exactly `quantity` pieces of that length  *)
(* and width; every piece has longueur > 0 and largeur > 0.  (A quantity    *)
(* that parses to 0 is replaced by 1 before the test.)                      *)
C30_Original ==
    Called("normalizeData") =>
       /\ \A k \in 1..Len(callArgs.data) :
             LET row == RowCells(callArgs.data[k])
                 got == PiecesOfRow(callResult, k)
                 valid == /\ DecPositive(ParseN(row.LONGUEUR))
                          /\ DecPositive(ParseN(row.LARGEUR))
                          /\ DecPositive(ParseN(row.QUANTITE))
             IN /\ Len(got) > 0 => valid
                /\ valid =>
                      /\ DecOfInt(Len(got)) = ParseN(row.QUANTITE)
                      /\ \A i \in 1..Len(got) :
                            /\ got[i].longueur = ParseN(row.LONGUEUR)
                            /\ got[i].largeur = ParseN(row.LARGEUR)
       /\ \A i \in 1..Len(callResult) :
             DecPositive(callResult[i].longueur) /\ DecPositive(callResult[i].largeur)

\* what does hold: every piece handed on has a positive length and width,
\* and a row of positive length and width yields as many pieces as the
\* integer part of its quantity, 1 if that is 0, none if it is negative
C30_PositivePieces ==
    Called("normalizeData") =>
       /\ \A i \in 1..Len(callResult) :
             DecPositive(callResult[i].longueur) /\ DecPositive(callResult[i].largeur)
       /\ \A k \in 1..Len(callArgs.data) :
             LET row == RowCells(callArgs.data[k])
                 qty == ParseQty(ParseN(row.QUANTITE))
             IN Len(PiecesOfRow(callResult, k))
                   = IF /\ DecPositive(ParseN(row.LONGUEUR))
                        /\ DecPositive(ParseN(row.LARGEUR))
                        /\ qty > 0
                     THEN qty ELSE 0


\* C29: from startOptimization until the completion event of that run is
\* received, state.result is null and the visualization and export sections
\* are hidden, whatever the interleaving of user events, yields and timers.
C29_Original ==
    \A r \in Runs :
       (run[r].pc # "init" /\ obs[r].completions = 0)
          => /\ uiState.result = <<>>
             /\ uiEls.vizSection = "none"
             /\ uiEls.exportSection = "none"

\* The same for the first run as long as no second one has been started: the
\* interface keeps the result back when runs do not overlap.
C29_FirstRunAlone ==
    (run[1].pc # "init" /\ obs[1].completions = 0 /\ run[2].pc = "init")
       => /\ uiState.result = <<>>
          /\ uiEls.vizSection = "none"
          /\ uiEls.exportSection = "none"


\* C31: every panel solve returns holds at least one placed piece, also
\* when the list has pieces that fit no empty panel.
C31_Original ==
    pkPc = "done" =>
       \A i \in 1..Len(pkPanels) : Len(pkPanels[i].pieces) > 0


\* the pieces have pairwise distinct areas (longueur * largeur)
DistinctAreas(pieces) ==
    \A i, j \in 1..Len(pieces) :
       i # j => pieces[i].longueur * pieces[i].largeur
                  # pieces[j].longueur * pieces[j].largeur

\* C32: for a group whose pieces have pairwise distinct areas, every
\* candidate the loop can compute (any shuffle, any sort criterion) is the
\* cold-start solution of the group, and the pass leaves the bests as they
\* were.
C32_DistinctAreas ==
    [][\A r \in Runs :
         (run[r].pc = "cycle" /\ run'[r] # run[r])
            => LET gi == run[r].gi
                   group == run[r].groups[gi]
               IN DistinctAreas(group.pieces)
                    => /\ \A order \in Perturbations(group.pieces, run[r].iteration) :
                             WithMaterial(SolveMemo(order, run[r].allowRotation), group)
                                = obs[r].hist[1][gi]
                       /\ run'[r].best = run[r].best]_vars

\* Every group of a run has gone through a pass of the loop, and one of
\* them has several pieces, of pairwise distinct areas.
C32_Witness ==
    \E r \in Runs :
       /\ run[r].pc = "loop" /\ run[r].iteration >= 1
       /\ \E gi \in 1..Len(run[r].groups) :
             /\ Len(run[r].groups[gi].pieces) >= 2
             /\ DistinctAreas(run[r].groups[gi].pieces)
             /\ run[r].best[gi] = obs[r].hist[1][gi]


\* the outputs of the packer for the orders of a group's pieces
PackerOutputs(group, allowRotation) ==
    { SolveMemo(order, allowRotation) : order \in Shuffles(group.pieces) }

\* C33: for a group, two packer outputs with the same number of panels have
\* the same total placed area; when the loop compares a candidate with a
\* best of as many panels, neither exceeds the other in utilization and
\* _isBetter answers as the largest offcuts compare.
C33_UtilizationTie ==
    [][\A r \in Runs :
         (run[r].pc = "cycle" /\ run'[r] # run[r])
            => LET gi == run[r].gi
                   group == run[r].groups[gi]
                   best == run[r].best[gi]
                   outs == PackerOutputs(group, run[r].allowRotation)
               IN /\ \A a, b \in outs :
                        Len(a) = Len(b) => TotalUsed(a) = TotalUsed(b)
                  /\ \A cand \in outs :
                        Len(cand) = Len(best)
                           => /\ TotalUsed(cand) = TotalUsed(best)
                              /\ ~UtilExceeds(cand, best)
                              /\ ~UtilBelow(cand, best)
                              /\ IsBetter(cand, best)
                                   = (MaxOffcut(cand) > MaxOffcut(best))]_vars

\* A best has been replaced by a candidate of as many panels: the offcut
\* criterion has decided.
C33_Witness ==
    \E r \in Runs :
       \E k \in 1..Len(obs[r].hist) - 1 :
          \E gi \in 1..Len(run[r].groups) :
             /\ obs[r].hist[k + 1][gi] # obs[r].hist[k][gi]
             /\ Len(obs[r].hist[k + 1][gi]) = Len(obs[r].hist[k][gi])
             /\ TotalUsed(obs[r].hist[k + 1][gi]) = TotalUsed(obs[r].hist[k][gi])
             /\ MaxOffcut(obs[r].hist[k + 1][gi]) > MaxOffcut(obs[r].hist[k][gi])


\* C34: while a panel is filled and when it is finalized, no piece deferred
\* to the next pass fits, in an allowed orientation, a free rectangle the
\* panel still has.
C34_DeferredFitNowhere ==
    pkPc \in {"for", "endpass"} =>
       \A k \in 1..Len(pkSt.nextPass) :
          FittingPairs(pkSt.nextPass[k], pkSt.panel.freeRects, pkRot) = {}

\* A panel about to be finalized holds a piece, still has free rectangles
\* and has deferred a piece that fits an empty panel.
C34_Witness ==
    /\ pkPc = "endpass"
    /\ Len(pkSt.panel.pieces) > 0
    /\ Len(pkSt.panel.freeRects) > 0
    /\ \E k \in 1..Len(pkSt.nextPass) :
          FittingPairs(pkSt.nextPass[k],
                       PanelSolution(pkBin.width, pkBin.height).freeRects,
                       pkRot) # {}


\* C35: a stop request is never lost and loops never overlap: a run during
\* which stop() was called leaves its loop at its next loop-condition check,
\* whatever was called in between, and at most one invocation of start is
\* in progress on the engine.
C35_Original ==
    /\ [][\A r \in Runs :
            (run[r].pc = "loop" /\ run'[r] # run[r] /\ obs[r].stopIter > 0)
               => run'[r].pc = "finalize"]_vars
    /\ [](\A r, q \in Runs : (InProgress(r) /\ InProgress(q)) => r = q)

\* The same for an invocation that runs alone on its engine: its stop
\* request stands until its next loop-condition check.
C35_RunningAlone ==
    [][(run[1].pc = "loop" /\ run'[1] # run[1] /\ obs[1].stopIter > 0
          /\ run[2].pc = "init")
         => run'[1].pc = "finalize"]_vars


\* C36: after reset(), state.result stays null and the two sections stay
\* hidden until an optimization started after the reset has completed.
C36_Original ==
    (uiObs.reset /\ \A r \in Runs \ uiObs.before : obs[r].completions = 0)
       => /\ uiState.result = <<>>
          /\ uiEls.vizSection = "none"
          /\ uiEls.exportSection = "none"


\* C37: whenever state.isOptimizing is true the start button is in its stop
\* state, the status shows running and the grain toggle is disabled.
C37_Original ==
    uiState.isOptimizing =>
       /\ uiEls.startBtnStop
       /\ uiEls.statusRunning
       /\ uiEls.grainDisabled

\* The same while no finalize timer of an earlier completion is pending: the
\* controls follow isOptimizing when a run is started with no animation
\* under way.
C37_NoPendingTimer ==
    (uiState.isOptimizing /\ uiTimers = 0 /\ run[2].pc = "init") =>
       /\ uiEls.startBtnStop
       /\ uiEls.statusRunning
       /\ uiEls.grainDisabled


\* C38: the pieces normalizeData returns for one sheet have pairwise
\* distinct ids, also when rows share a reference.
C38_Original ==
    Called("normalizeData") =>
       \A i, j \in 1..Len(callResult) :
          i # j => callResult[i].id # callResult[j].id

\* The references the rows are given (their own or `P-${index}`), as the
\* id writes them.
RowRefs(data) ==
    [k \in 1..Len(data) |->
        TemplateChars(IF Falsy(RowCells(data[k]).DENOMINATION) THEN DefaultRef(k - 1)
                      ELSE RowCells(data[k]).DENOMINATION)]

\* The ids are pairwise distinct when the rows' references, as written, are.
C38_DistinctReferences ==
    (/\ Called("normalizeData")
     /\ \A k, m \in 1..Len(callArgs.data) :
           k # m => RowRefs(callArgs.data)[k] # RowRefs(callArgs.data)[m])
       => \A i, j \in 1..Len(callResult) :
             i # j => callResult[i].id # callResult[j].id

=============================================================================
